---- MODULE Spec2Model ----
(***************************************************************************)
(* Relationship lifecycle engine and its dependent-entity coordinators.    *)
(*                                                                         *)
(* Every HTTP handler is an async function: between two awaits the event   *)
(* loop may run another request.  A handler is therefore modelled as the   *)
(* sequence of its database round trips: the first step performs the read  *)
(* and the synchronous checks that follow it, each later step performs one *)
(* awaited write.  A request lives in a slot of procs from its first step  *)
(* to its last.  Notification.create touches only the Notification         *)
(* collection, which no handler modelled here reads, so it is performed in *)
(* the step of the write it follows.                                       *)
(*                                                                         *)
(* Document.save() of the ORM sends only the paths modified since the      *)
(* document was loaded ($set / $push), and throws when the document no     *)
(* longer exists.  Model.findByIdAndUpdate / findByIdAndDelete are single  *)
(* atomic store operations that do nothing when the document is absent.    *)
(***************************************************************************)
EXTENDS Integers, Sequences, FiniteSets, Bags, TLC

VARIABLES
    rels,           \* Relationship collection: id -> document
    nextRel,        \* next fresh Relationship id
    notifications,  \* Notification collection (bag of documents)
    sinkUp,         \* whether the Notification collection accepts inserts
    procs,          \* request slots: the handlers in flight
    lastRes,        \* the HTTP response sent by the latest step, if any
    issued,         \* number of requests started so far
    terms,          \* Term collection: id -> document
    nextTerm,       \* next fresh Term id
    milestones,     \* Milestone collection: id -> document
    nextMil,        \* next fresh Milestone id
    activities,     \* Activity collection: id -> document
    nextAct,        \* next fresh Activity id
    certificates    \* Certificate collection, in insertion order

\* the collections of the entities that depend on a relationship
termVars == <<terms, nextTerm>>

milestoneVars == <<milestones, nextMil>>

activityVars == <<activities, nextAct>>

deps == <<termVars, milestoneVars, activityVars, certificates>>

vars == <<rels, nextRel, notifications, sinkUp, procs, lastRes, issued, deps>>

(***************************************************************************)
(* Bounds                                                                  *)
(***************************************************************************)
MaxRels == 2
MaxOps == 4
MaxDeps == 2
MaxActs == 2

(***************************************************************************)
(* Identity directory: three registered users; NoUser stands for an email  *)
(* that resolves to nobody and for an unset user reference.                *)
(***************************************************************************)
Users == {"A", "B", "C"}
NoUser == "none"
Procs == {"p1", "p2"}
RelIds == 1..MaxRels

(***************************************************************************)
(* Relationship schema                                                     *)
(***************************************************************************)
DefaultTrustLevel == 50

NewRelationship(initiator, partner) ==
    [initiator |-> initiator,
     partner |-> partner,
     title |-> "r1",
     status |-> "pending",
     breakupRequestedBy |-> NoUser,
     acceptedDate |-> FALSE,
     endDate |-> FALSE,
     latestCertificate |-> 0,
     trustLevel |-> DefaultTrustLevel,
     totalActivities |-> 0,
     milestonesAchieved |-> 0]

NullDoc == [NewRelationship(NoUser, NoUser) EXCEPT !.status = "none"]

\* variant: acceptance that forgets the acceptance date
Accepted_NoDate(doc) == [doc EXCEPT !.status = "active"]

\* the assignments each transition makes to the loaded document before save()
Accepted(doc) == [doc EXCEPT !.status = "active", !.acceptedDate = TRUE]

\* variant: archiving resets the trust level
Archived_ResetTrust(doc) ==
    [doc EXCEPT !.status = "archived", !.endDate = TRUE, !.trustLevel = DefaultTrustLevel]

Archived(doc) == [doc EXCEPT !.status = "archived", !.endDate = TRUE]

\* variant: the request does not record who asked
BreakupRequested_NoRequester(doc, userId) == [doc EXCEPT !.status = "requested_breakup"]

BreakupRequested(doc, userId) ==
    [doc EXCEPT !.status = "requested_breakup", !.breakupRequestedBy = userId]

Ended(doc) == [doc EXCEPT !.status = "ended", !.endDate = TRUE]

BreakupCanceled(doc) == [doc EXCEPT !.status = "active", !.breakupRequestedBy = NoUser]

includesUser(doc, userId) == doc.initiator = userId \/ doc.partner = userId

getPartner(doc, userId) == IF doc.initiator = userId THEN doc.partner ELSE doc.initiator

\* unique index { initiator: 1, partner: 1 }: the key is the ordered pair
UniqueIndexViolated(doc) ==
    \E i \in DOMAIN rels :
        rels[i].initiator = doc.initiator /\ rels[i].partner = doc.partner

\* variant: the lookup matches the proposer's own direction only
FindExisting_OneDirection(a, b) ==
    {i \in DOMAIN rels : rels[i].initiator = a /\ rels[i].partner = b}

\* Relationship.findOne({$or: [{initiator: a, partner: b}, {initiator: b, partner: a}]})
FindExisting(a, b) ==
    {i \in DOMAIN rels :
        \/ rels[i].initiator = a /\ rels[i].partner = b
        \/ rels[i].initiator = b /\ rels[i].partner = a}

(***************************************************************************)
(* Request slots and responses                                             *)
(***************************************************************************)
NoRes == [status |-> 0, message |-> "none"]

Res(status, message) == [status |-> status, message |-> message]

\* outcome of a handler's checks when none of them returned a response
Pass == NoRes

\* a path of a document, or a field of a request body, that was never given
\* a value
Undefined == "undefined"

\* placeholder for "no dependent document loaded"
NullEnt == [status |-> "none"]

\* a handler's locals: the caller, the relationship id and document it
\* loaded, the dependent id and document it loaded, and its numeric and
\* textual input
IdleProc ==
    [op |-> "none", actor |-> NoUser, rel |-> 0, pc |-> "idle", doc |-> NullDoc,
     ent |-> 0, edoc |-> NullEnt, arg |-> 0, body |-> Undefined]

Idle(p) == procs[p].pc = "idle"

CanStart(p) == Idle(p) /\ issued < MaxOps

At(p, op, pc) == procs[p].op = op /\ procs[p].pc = pc

\* res.status(..).json(..) as the handler's last act
Respond(p, status, message) ==
    /\ procs' = [procs EXCEPT ![p] = IdleProc]
    /\ lastRes' = Res(status, message)

\* the first step passed its checks: the handler goes on to its next await
BeginWith(p, op, actor, rel, pc, doc, ent, edoc, arg, body) ==
    /\ procs' = [procs EXCEPT ![p] = [op |-> op, actor |-> actor, rel |-> rel,
                                      pc |-> pc, doc |-> doc,
                                      ent |-> ent, edoc |-> edoc, arg |-> arg,
                                      body |-> body]]
    /\ lastRes' = NoRes
    /\ issued' = issued + 1
    /\ UNCHANGED <<rels, nextRel, notifications, sinkUp, deps>>

BeginDep(p, op, actor, rel, pc, doc, ent, edoc, arg) ==
    BeginWith(p, op, actor, rel, pc, doc, ent, edoc, arg, Undefined)

Begin(p, op, actor, rel, pc, doc) == BeginDep(p, op, actor, rel, pc, doc, 0, NullEnt, 0)

\* the handler goes on from one await to the next
Goto(p, pc) ==
    /\ procs' = [procs EXCEPT ![p].pc = pc]
    /\ lastRes' = NoRes

\* variant: the rejected request has left a notice behind
Reject_Notifies(p, status, message) ==
    /\ Respond(p, status, message)
    /\ issued' = issued + 1
    /\ notifications' = notifications
          (+) SetToBag({[recipient |-> NoUser, sender |-> NoUser, type |-> "rejected",
                         rel |-> 0]})
    /\ UNCHANGED <<rels, nextRel, sinkUp, deps>>

\* the first step returns an error response
Reject(p, status, message) ==
    /\ Respond(p, status, message)
    /\ issued' = issued + 1
    /\ UNCHANGED <<rels, nextRel, notifications, sinkUp, deps>>

Notification(recipient, sender, type, rel) ==
    [recipient |-> recipient, sender |-> sender, type |-> type, rel |-> rel]

\* Notification.create(..): inserts one document
CreateNotification(n) == notifications' = notifications (+) SetToBag({n})

\* await Notification.create(n) followed by the success response; when the
\* sink rejects the insert the catch block answers 500
AwaitNotification(p, n, status, message, errorMessage) ==
    IF sinkUp
      THEN /\ CreateNotification(n)
           /\ Respond(p, status, message)
      ELSE /\ UNCHANGED notifications
           /\ Respond(p, 500, errorMessage)

\* the success response, then Notification.create(n).catch(log): a failure
\* of the sink is logged and changes nothing
FireAndForgetNotification(p, n, status, message) ==
    /\ Respond(p, status, message)
    /\ IF sinkUp THEN CreateNotification(n) ELSE UNCHANGED notifications

\* ids are never reused; at most MaxRels documents are ever created
HasFreshRelId ==
    nextRel + Cardinality({q \in Procs : procs[q].op = "createRelationship"}) <= MaxRels

RemoveRel(id) == [i \in DOMAIN rels \ {id} |-> rels[i]]

\* no dependent entity has been created yet
NoDeps ==
    /\ terms = << >>
    /\ nextTerm = 1
    /\ milestones = << >>
    /\ nextMil = 1
    /\ activities = << >>
    /\ nextAct = 1
    /\ certificates = << >>

Init ==
    /\ rels = << >>
    /\ nextRel = 1
    /\ notifications = EmptyBag
    /\ sinkUp \in BOOLEAN
    /\ procs = [p \in Procs |-> IdleProc]
    /\ lastRes = NoRes
    /\ issued = 0
    /\ NoDeps

(***************************************************************************)
(* createRelationship                                                      *)
(***************************************************************************)
\* User.findOne by email, the self check and the existence check
\* variant: a proposal to oneself is not rejected
CheckCreateRelationship_NoSelfCheck(actor, target) ==
    IF target = NoUser
      THEN Res(404, "User not found with this email")
    ELSE IF FindExisting(actor, target) # {}
      THEN Res(400, "Relationship already exists")
    ELSE Pass

CheckCreateRelationship(actor, target) ==
    IF target = NoUser
      THEN Res(404, "User not found with this email")
    ELSE IF target = actor
      THEN Res(400, "Cannot create relationship with yourself")
    ELSE IF FindExisting(actor, target) # {}
      THEN Res(400, "Relationship already exists")
    ELSE Pass

StartCreateRelationship(p, actor, target) ==
    /\ CanStart(p)
    /\ LET r == CheckCreateRelationship(actor, target) IN
         IF r = Pass
           THEN /\ HasFreshRelId
                /\ Begin(p, "createRelationship", actor, 0, "save",
                         NewRelationship(actor, target))
           ELSE Reject(p, r.status, r.message)

\* relationship.save(): insert, subject to the unique index; then the
\* invitation for the partner
SaveCreateRelationship(p) ==
    /\ At(p, "createRelationship", "save")
    /\ IF UniqueIndexViolated(procs[p].doc)
         THEN /\ Respond(p, 500, "Server error during relationship creation")
              /\ UNCHANGED <<rels, nextRel, notifications>>
         ELSE /\ rels' = rels @@ (nextRel :> procs[p].doc)
              /\ nextRel' = nextRel + 1
              /\ AwaitNotification(p,
                     Notification(procs[p].doc.partner, procs[p].actor,
                                  "relationship_invite", nextRel),
                     201, "Relationship invitation sent successfully",
                     "Server error during relationship creation")
    /\ UNCHANGED <<sinkUp, issued, deps>>

(***************************************************************************)
(* acceptRelationship                                                      *)
(***************************************************************************)
CheckAcceptRelationship(actor, id) ==
    IF id \notin DOMAIN rels
      THEN Res(404, "Relationship not found")
    ELSE IF rels[id].partner # actor
      THEN Res(403, "Only the invited partner can accept this relationship")
    ELSE IF rels[id].status # "pending"
      THEN Res(400, "Relationship is not pending")
    ELSE Pass

StartAcceptRelationship(p, actor, id) ==
    /\ CanStart(p)
    /\ LET r == CheckAcceptRelationship(actor, id) IN
         IF r = Pass
           THEN Begin(p, "acceptRelationship", actor, id, "save", rels[id])
           ELSE Reject(p, r.status, r.message)

SaveAcceptRelationship(p) ==
    /\ At(p, "acceptRelationship", "save")
    /\ IF procs[p].rel \notin DOMAIN rels
         THEN /\ Respond(p, 500, "Server error during relationship acceptance")
              /\ UNCHANGED <<rels, notifications>>
         ELSE /\ rels' = [rels EXCEPT ![procs[p].rel] = Accepted(@)]
              /\ AwaitNotification(p,
                     Notification(procs[p].doc.initiator, procs[p].actor,
                                  "relationship_accepted", procs[p].rel),
                     200, "Relationship accepted successfully",
                     "Server error during relationship acceptance")
    /\ UNCHANGED <<nextRel, sinkUp, issued, deps>>

(***************************************************************************)
(* declineRelationship                                                     *)
(***************************************************************************)
\* variant: either party may decline
CheckDeclineRelationship_AnyParty(actor, id) ==
    IF id \notin DOMAIN rels
      THEN Res(404, "Relationship not found")
    ELSE IF ~includesUser(rels[id], actor)
      THEN Res(403, "Only the invited partner can decline this relationship")
    ELSE IF rels[id].status # "pending"
      THEN Res(400, "Relationship is not pending")
    ELSE Pass

CheckDeclineRelationship(actor, id) ==
    IF id \notin DOMAIN rels
      THEN Res(404, "Relationship not found")
    ELSE IF rels[id].partner # actor
      THEN Res(403, "Only the invited partner can decline this relationship")
    ELSE IF rels[id].status # "pending"
      THEN Res(400, "Relationship is not pending")
    ELSE Pass

StartDeclineRelationship(p, actor, id) ==
    /\ CanStart(p)
    /\ LET r == CheckDeclineRelationship(actor, id) IN
         IF r = Pass
           THEN Begin(p, "declineRelationship", actor, id, "delete", rels[id])
           ELSE Reject(p, r.status, r.message)

\* Relationship.findByIdAndDelete(id)
DeleteDeclineRelationship(p) ==
    /\ At(p, "declineRelationship", "delete")
    /\ rels' = RemoveRel(procs[p].rel)
    /\ AwaitNotification(p,
           Notification(procs[p].doc.initiator, procs[p].actor,
                        "relationship_declined", procs[p].rel),
           200, "Relationship declined successfully",
           "Server error during relationship decline")
    /\ UNCHANGED <<nextRel, sinkUp, issued, deps>>

(***************************************************************************)
(* deleteRelationship (archive when active, delete otherwise)              *)
(***************************************************************************)
CheckDeleteRelationship(actor, id) ==
    IF id \notin DOMAIN rels
      THEN Res(404, "Relationship not found")
    ELSE IF ~includesUser(rels[id], actor)
      THEN Res(403, "Access denied")
    ELSE Pass

\* archive instead of delete if the relationship is active
StartDeleteRelationship(p, actor, id) ==
    /\ CanStart(p)
    /\ LET r == CheckDeleteRelationship(actor, id) IN
         IF r = Pass
           THEN Begin(p, "deleteRelationship", actor, id,
                      IF rels[id].status = "active" THEN "save" ELSE "delete", rels[id])
           ELSE Reject(p, r.status, r.message)

SaveArchiveRelationship(p) ==
    /\ At(p, "deleteRelationship", "save")
    /\ IF procs[p].rel \notin DOMAIN rels
         THEN /\ Respond(p, 500, "Server error during relationship deletion")
              /\ UNCHANGED rels
         ELSE /\ rels' = [rels EXCEPT ![procs[p].rel] = Archived(@)]
              /\ Respond(p, 200, "Relationship archived successfully")
    /\ UNCHANGED <<nextRel, notifications, sinkUp, issued, deps>>

DeleteDeleteRelationship(p) ==
    /\ At(p, "deleteRelationship", "delete")
    /\ rels' = RemoveRel(procs[p].rel)
    /\ Respond(p, 200, "Relationship deleted successfully")
    /\ UNCHANGED <<nextRel, notifications, sinkUp, issued, deps>>

(***************************************************************************)
(* requestBreakup                                                          *)
(***************************************************************************)
CheckRequestBreakup(actor, id) ==
    IF id \notin DOMAIN rels
      THEN Res(404, "Relationship not found")
    ELSE IF ~includesUser(rels[id], actor)
      THEN Res(403, "Access denied")
    ELSE IF rels[id].status # "active"
      THEN Res(400, "Can only request breakup for active relationships")
    ELSE Pass

StartRequestBreakup(p, actor, id) ==
    /\ CanStart(p)
    /\ LET r == CheckRequestBreakup(actor, id) IN
         IF r = Pass
           THEN Begin(p, "requestBreakup", actor, id, "save", rels[id])
           ELSE Reject(p, r.status, r.message)

SaveRequestBreakup(p) ==
    /\ At(p, "requestBreakup", "save")
    /\ IF procs[p].rel \notin DOMAIN rels
         THEN /\ Respond(p, 500, "Server error during breakup request")
              /\ UNCHANGED <<rels, notifications>>
         ELSE /\ rels' = [rels EXCEPT ![procs[p].rel] = BreakupRequested(@, procs[p].actor)]
              /\ FireAndForgetNotification(p,
                     Notification(getPartner(procs[p].doc, procs[p].actor), procs[p].actor,
                                  "breakup_request", procs[p].rel),
                     200, "Breakup request sent successfully")
    /\ UNCHANGED <<nextRel, sinkUp, issued, deps>>

(***************************************************************************)
(* confirmBreakup                                                          *)
(***************************************************************************)
\* variant: the check on the requester is missing
CheckConfirmBreakup_NoRequesterCheck(actor, id) ==
    IF id \notin DOMAIN rels
      THEN Res(404, "Relationship not found")
    ELSE IF ~includesUser(rels[id], actor)
      THEN Res(403, "Access denied")
    ELSE IF rels[id].status # "requested_breakup"
      THEN Res(400, "Relationship is not in breakup request state")
    ELSE Pass

CheckConfirmBreakup(actor, id) ==
    IF id \notin DOMAIN rels
      THEN Res(404, "Relationship not found")
    ELSE IF ~includesUser(rels[id], actor)
      THEN Res(403, "Access denied")
    ELSE IF rels[id].status # "requested_breakup"
      THEN Res(400, "Relationship is not in breakup request state")
    ELSE IF rels[id].breakupRequestedBy = actor
      THEN Res(400, "You cannot confirm your own breakup request")
    ELSE Pass

StartConfirmBreakup(p, actor, id) ==
    /\ CanStart(p)
    /\ LET r == CheckConfirmBreakup(actor, id) IN
         IF r = Pass
           THEN Begin(p, "confirmBreakup", actor, id, "save", rels[id])
           ELSE Reject(p, r.status, r.message)

SaveConfirmBreakup(p) ==
    /\ At(p, "confirmBreakup", "save")
    /\ IF procs[p].rel \notin DOMAIN rels
         THEN /\ Respond(p, 500, "Server error during breakup confirmation")
              /\ UNCHANGED <<rels, notifications>>
         ELSE /\ rels' = [rels EXCEPT ![procs[p].rel] = Ended(@)]
              /\ FireAndForgetNotification(p,
                     Notification(procs[p].doc.breakupRequestedBy, procs[p].actor,
                                  "breakup_confirmed", procs[p].rel),
                     200, "Breakup confirmed successfully")
    /\ UNCHANGED <<nextRel, sinkUp, issued, deps>>

(***************************************************************************)
(* cancelBreakupRequest                                                    *)
(***************************************************************************)
\* variant: any party may cancel
CheckCancelBreakupRequest_AnyParty(actor, id) ==
    IF id \notin DOMAIN rels
      THEN Res(404, "Relationship not found")
    ELSE IF ~includesUser(rels[id], actor)
      THEN Res(403, "Not authorized to cancel this request")
    ELSE IF rels[id].status # "requested_breakup"
      THEN Res(400, "No breakup request pending for this relationship")
    ELSE Pass

CheckCancelBreakupRequest(actor, id) ==
    IF id \notin DOMAIN rels
      THEN Res(404, "Relationship not found")
    ELSE IF ~includesUser(rels[id], actor)
      THEN Res(403, "Not authorized to cancel this request")
    ELSE IF rels[id].status # "requested_breakup"
      THEN Res(400, "No breakup request pending for this relationship")
    ELSE IF rels[id].breakupRequestedBy # actor
      THEN Res(403, "Only the initiator can cancel the breakup request")
    ELSE Pass

StartCancelBreakupRequest(p, actor, id) ==
    /\ CanStart(p)
    /\ LET r == CheckCancelBreakupRequest(actor, id) IN
         IF r = Pass
           THEN Begin(p, "cancelBreakupRequest", actor, id, "save", rels[id])
           ELSE Reject(p, r.status, r.message)

SaveCancelBreakupRequest(p) ==
    /\ At(p, "cancelBreakupRequest", "save")
    /\ IF procs[p].rel \notin DOMAIN rels
         THEN /\ Respond(p, 500, "Server error during breakup request cancellation")
              /\ UNCHANGED <<rels, notifications>>
         ELSE /\ rels' = [rels EXCEPT ![procs[p].rel] = BreakupCanceled(@)]
              /\ AwaitNotification(p,
                     Notification(getPartner(procs[p].doc, procs[p].actor), procs[p].actor,
                                  "breakup_request_canceled", procs[p].rel),
                     200, "Breakup request canceled successfully. Relationship is now active.",
                     "Server error during breakup request cancellation")
    /\ UNCHANGED <<nextRel, sinkUp, issued, deps>>

(***************************************************************************)
(* The lifecycle engine: any user may send any request at any time, two    *)
(* requests may be in flight together.                                     *)
(***************************************************************************)
Next ==
    \/ \E p \in Procs, actor \in Users, target \in Users \cup {NoUser} :
          StartCreateRelationship(p, actor, target)
    \/ \E p \in Procs : SaveCreateRelationship(p)
    \/ \E p \in Procs, actor \in Users, id \in RelIds : StartAcceptRelationship(p, actor, id)
    \/ \E p \in Procs : SaveAcceptRelationship(p)
    \/ \E p \in Procs, actor \in Users, id \in RelIds : StartDeclineRelationship(p, actor, id)
    \/ \E p \in Procs : DeleteDeclineRelationship(p)
    \/ \E p \in Procs, actor \in Users, id \in RelIds : StartDeleteRelationship(p, actor, id)
    \/ \E p \in Procs : SaveArchiveRelationship(p)
    \/ \E p \in Procs : DeleteDeleteRelationship(p)
    \/ \E p \in Procs, actor \in Users, id \in RelIds : StartRequestBreakup(p, actor, id)
    \/ \E p \in Procs : SaveRequestBreakup(p)
    \/ \E p \in Procs, actor \in Users, id \in RelIds : StartConfirmBreakup(p, actor, id)
    \/ \E p \in Procs : SaveConfirmBreakup(p)
    \/ \E p \in Procs, actor \in Users, id \in RelIds : StartCancelBreakupRequest(p, actor, id)
    \/ \E p \in Procs : SaveCancelBreakupRequest(p)

Spec == Init /\ [][Next]_vars

(***************************************************************************)
(* The same engine started from the store holding one relationship that A  *)
(* proposed and B accepted.                                                *)
(***************************************************************************)
InitActive ==
    /\ rels = (1 :> Accepted(NewRelationship("A", "B")))
    /\ nextRel = 2
    /\ sinkUp \in BOOLEAN
    /\ notifications =
          IF sinkUp
            THEN SetToBag({Notification("B", "A", "relationship_invite", 1),
                           Notification("A", "B", "relationship_accepted", 1)})
            ELSE EmptyBag
    /\ procs = [p \in Procs |-> IdleProc]
    /\ lastRes = NoRes
    /\ issued = 0
    /\ NoDeps

SpecActive == InitActive /\ [][Next]_vars

(***************************************************************************)
(* Term schema and agreeTerm                                               *)
(***************************************************************************)
NewTerm(relationship, createdBy, title) ==
    [relationship |-> relationship,
     createdBy |-> createdBy,
     title |-> title,
     status |-> "proposed",
     agreedBy |-> << >>,
     violations |-> << >>]

\* agreedBy.length at which agreeTerm marks the term agreed
AgreementsNeeded == 2

hasUserAgreed(term, userId) ==
    \E i \in DOMAIN term.agreedBy : term.agreedBy[i] = userId

\* term.save() after agreedBy.push(..) and the status assignment made on the
\* loaded copy: the new entry is sent as a $push, status is sent only when
\* the assignment changed it
AgreementSaved(stored, loaded, userId) ==
    [stored EXCEPT
        !.agreedBy = Append(@, userId),
        !.status = IF /\ Len(loaded.agreedBy) + 1 >= AgreementsNeeded
                      /\ loaded.status # "agreed"
                     THEN "agreed"
                     ELSE @]

\* Term.findById(id).populate('relationship') and the checks on the result;
\* a term whose relationship is gone populates to null and the party check throws
CheckAgreeTerm(actor, t) ==
    IF t \notin DOMAIN terms
      THEN Res(404, "Term not found")
    ELSE IF terms[t].relationship \notin DOMAIN rels
      THEN Res(500, "Server error during term agreement")
    ELSE IF ~includesUser(rels[terms[t].relationship], actor)
      THEN Res(403, "Access denied")
    ELSE IF hasUserAgreed(terms[t], actor)
      THEN Res(400, "You have already agreed to this term")
    ELSE Pass

StartAgreeTerm(p, actor, t) ==
    /\ CanStart(p)
    /\ LET r == CheckAgreeTerm(actor, t) IN
         IF r = Pass
           THEN BeginDep(p, "agreeTerm", actor, terms[t].relationship, "save",
                         rels[terms[t].relationship], t, terms[t], 0)
           ELSE Reject(p, r.status, r.message)

SaveAgreeTerm(p) ==
    /\ At(p, "agreeTerm", "save")
    /\ IF procs[p].ent \notin DOMAIN terms
         THEN /\ Respond(p, 500, "Server error during term agreement")
              /\ UNCHANGED <<terms, notifications>>
         ELSE /\ terms' = [terms EXCEPT ![procs[p].ent] =
                              AgreementSaved(@, procs[p].edoc, procs[p].actor)]
              /\ AwaitNotification(p,
                     Notification(getPartner(procs[p].doc, procs[p].actor), procs[p].actor,
                                  "term_agreed", procs[p].rel),
                     200, "Term agreement recorded successfully",
                     "Server error during term agreement")
    /\ UNCHANGED <<rels, nextRel, sinkUp, issued, nextTerm, milestoneVars, activityVars,
                   certificates>>

(***************************************************************************)
(* createTerm, updateTerm, reportViolation, deleteTerm                     *)
(***************************************************************************)
\* titles a request body may carry
TermTitles == {"t1", "t2"}

\* ids are never reused; at most MaxDeps terms are ever created
HasFreshTermId ==
    nextTerm + Cardinality({q \in Procs : procs[q].op = "createTerm"}) <= MaxDeps

RemoveTerm(id) == [i \in DOMAIN terms \ {id} |-> terms[i]]

CheckCreateTerm(actor, id) ==
    IF id \notin DOMAIN rels
      THEN Res(404, "Relationship not found")
    ELSE IF ~includesUser(rels[id], actor)
      THEN Res(403, "Access denied")
    ELSE IF rels[id].status # "active"
      THEN Res(400, "Can only create terms for active relationships")
    ELSE Pass

StartCreateTerm(p, actor, id, title) ==
    /\ CanStart(p)
    /\ LET r == CheckCreateTerm(actor, id) IN
         IF r = Pass
           THEN /\ HasFreshTermId
                /\ BeginWith(p, "createTerm", actor, id, "save", rels[id],
                             0, NullEnt, 0, title)
           ELSE Reject(p, r.status, r.message)

\* term.save(): the insert; then the notice for the partner
SaveCreateTerm(p) ==
    /\ At(p, "createTerm", "save")
    /\ terms' = terms @@ (nextTerm :> NewTerm(procs[p].rel, procs[p].actor, procs[p].body))
    /\ nextTerm' = nextTerm + 1
    /\ AwaitNotification(p,
           Notification(getPartner(procs[p].doc, procs[p].actor), procs[p].actor,
                        "term_proposed", procs[p].rel),
           201, "Term created successfully",
           "Server error during term creation")
    /\ UNCHANGED <<rels, nextRel, sinkUp, issued, milestoneVars, activityVars, certificates>>

\* the update document of updateTerm when the body names an allowed field
TermUpdated(stored, title) ==
    [stored EXCEPT !.title = title, !.status = "modified", !.agreedBy = << >>]

CheckUpdateTerm(actor, t) ==
    IF t \notin DOMAIN terms
      THEN Res(404, "Term not found")
    ELSE IF terms[t].createdBy # actor
      THEN Res(403, "Only the creator can update this term")
    ELSE IF terms[t].status = "agreed"
      THEN Res(400, "Cannot update agreed terms")
    ELSE Pass

\* body is the title the request carries, or Undefined when the request
\* names no allowed field
StartUpdateTerm(p, actor, t, body) ==
    /\ CanStart(p)
    /\ LET r == CheckUpdateTerm(actor, t) IN
         IF r = Pass
           THEN BeginWith(p, "updateTerm", actor, terms[t].relationship, "update",
                          NullDoc, t, terms[t], 0, body)
           ELSE Reject(p, r.status, r.message)

\* Term.findByIdAndUpdate(id, updates): an empty update document changes
\* nothing, a missing term yields null; either way the answer is 200
UpdateUpdateTerm(p) ==
    /\ At(p, "updateTerm", "update")
    /\ terms' = IF procs[p].ent \in DOMAIN terms /\ procs[p].body # Undefined
                  THEN [terms EXCEPT ![procs[p].ent] = TermUpdated(@, procs[p].body)]
                  ELSE terms
    /\ Respond(p, 200, "Term updated successfully")
    /\ UNCHANGED <<rels, nextRel, notifications, sinkUp, issued, nextTerm, milestoneVars,
                   activityVars, certificates>>

CheckReportViolation(actor, t) ==
    IF t \notin DOMAIN terms
      THEN Res(404, "Term not found")
    ELSE IF terms[t].relationship \notin DOMAIN rels
      THEN Res(500, "Server error during violation report")
    ELSE IF ~includesUser(rels[terms[t].relationship], actor)
      THEN Res(403, "Access denied")
    ELSE Pass

StartReportViolation(p, actor, t) ==
    /\ CanStart(p)
    /\ LET r == CheckReportViolation(actor, t) IN
         IF r = Pass
           THEN BeginDep(p, "reportViolation", actor, terms[t].relationship, "save",
                         rels[terms[t].relationship], t, terms[t], 0)
           ELSE Reject(p, r.status, r.message)

\* term.save() after violations.push(..): a $push; then the notice
SaveReportViolation(p) ==
    /\ At(p, "reportViolation", "save")
    /\ IF procs[p].ent \notin DOMAIN terms
         THEN /\ Respond(p, 500, "Server error during violation report")
              /\ UNCHANGED <<terms, notifications>>
         ELSE /\ terms' = [terms EXCEPT ![procs[p].ent].violations =
                              Append(@, procs[p].actor)]
              /\ AwaitNotification(p,
                     Notification(getPartner(procs[p].doc, procs[p].actor), procs[p].actor,
                                  "term_violated", procs[p].rel),
                     200, "Violation reported successfully",
                     "Server error during violation report")
    /\ UNCHANGED <<rels, nextRel, sinkUp, issued, nextTerm, milestoneVars, activityVars,
                   certificates>>

\* variant: the deletion is open to every user
CheckDeleteTerm_AnyUser(actor, t) ==
    IF t \notin DOMAIN terms
      THEN Res(404, "Term not found")
    ELSE IF terms[t].status = "agreed"
      THEN Res(400, "Cannot delete agreed terms")
    ELSE Pass

CheckDeleteTerm(actor, t) ==
    IF t \notin DOMAIN terms
      THEN Res(404, "Term not found")
    ELSE IF terms[t].createdBy # actor
      THEN Res(403, "Only the creator can delete this term")
    ELSE IF terms[t].status = "agreed"
      THEN Res(400, "Cannot delete agreed terms")
    ELSE Pass

StartDeleteTerm(p, actor, t) ==
    /\ CanStart(p)
    /\ LET r == CheckDeleteTerm(actor, t) IN
         IF r = Pass
           THEN BeginDep(p, "deleteTerm", actor, terms[t].relationship, "delete",
                         NullDoc, t, terms[t], 0)
           ELSE Reject(p, r.status, r.message)

\* Term.findByIdAndDelete(id)
DeleteDeleteTerm(p) ==
    /\ At(p, "deleteTerm", "delete")
    /\ terms' = RemoveTerm(procs[p].ent)
    /\ Respond(p, 200, "Term deleted successfully")
    /\ UNCHANGED <<rels, nextRel, notifications, sinkUp, issued, nextTerm, milestoneVars,
                   activityVars, certificates>>

(***************************************************************************)
(* Milestone schema and completeMilestone                                  *)
(***************************************************************************)
Difficulties == {"easy", "medium", "hard", "expert"}

NewMilestone(relationship, difficulty, certificate) ==
    [relationship |-> relationship,
     status |-> "pending",
     participants |-> << >>,
     evidence |-> << >>,
     difficulty |-> difficulty,
     certificate |-> certificate]

\* milestone.save() after milestone.complete(userId) ran on the loaded copy:
\* status is set, the caller is pushed unless the loaded copy already lists them
CompletionSaved(stored, loaded, userId) ==
    [stored EXCEPT
        !.status = "completed",
        !.participants =
            IF \E i \in DOMAIN loaded.participants : loaded.participants[i] = userId
              THEN @
              ELSE Append(@, userId)]

CertificateLevel(difficulty) ==
    IF difficulty = "expert" THEN "platinum"
    ELSE IF difficulty = "hard" THEN "gold"
    ELSE IF difficulty = "medium" THEN "silver"
    ELSE "bronze"

\* certificateSchema.relatedTo.enum
RelatedToKinds == {"relationship", "milestone", "user", "activity", "term"}

\* new Certificate(fields): the schema is strict, so a field it does not
\* declare is dropped, and a declared path that was not given stays undefined
NewCertificate(fields) ==
    [relatedTo |-> IF "relatedTo" \in DOMAIN fields THEN fields.relatedTo ELSE Undefined,
     relatedId |-> IF "relatedId" \in DOMAIN fields THEN fields.relatedId ELSE 0,
     type |-> fields.type,
     level |-> fields.level,
     recipients |-> fields.recipients,
     title |-> "c1",
     certificateNumber |-> 0,
     validUntil |-> 0,
     isRevoked |-> FALSE,
     sharedOn |-> << >>,
     sharingShareCount |-> 0,
     viewCount |-> 0,
     downloadCount |-> 0,
     shareCount |-> 0]

\* validation run by certificate.save(): relatedTo and relatedId are required
CertificateValid(c) == c.relatedTo \in RelatedToKinds /\ c.relatedId # 0

\* the document completeMilestone builds with new Certificate({..})
MilestoneCertificate(rel, doc, m, milestone) ==
    NewCertificate([relationship |-> rel,
                    milestone |-> m,
                    type |-> "milestone",
                    level |-> CertificateLevel(milestone.difficulty),
                    recipients |-> {doc.initiator, doc.partner}])

\* certificate.save() of a valid document: the collection stores it
CertificateSaved(c) == certificates' = Append(certificates, c)

CheckCompleteMilestone(actor, m) ==
    IF m \notin DOMAIN milestones
      THEN Res(404, "Milestone not found")
    ELSE IF milestones[m].relationship \notin DOMAIN rels
      THEN Res(500, "Server error during milestone completion")
    ELSE IF ~includesUser(rels[milestones[m].relationship], actor)
      THEN Res(403, "Access denied")
    ELSE IF milestones[m].status = "completed"
      THEN Res(400, "Milestone is already completed")
    ELSE Pass

StartCompleteMilestone(p, actor, m) ==
    /\ CanStart(p)
    /\ LET r == CheckCompleteMilestone(actor, m) IN
         IF r = Pass
           THEN BeginDep(p, "completeMilestone", actor, milestones[m].relationship, "save",
                         rels[milestones[m].relationship], m, milestones[m], 0)
           ELSE Reject(p, r.status, r.message)

SaveCompleteMilestone(p) ==
    /\ At(p, "completeMilestone", "save")
    /\ IF procs[p].ent \notin DOMAIN milestones
         THEN /\ Respond(p, 500, "Server error during milestone completion")
              /\ UNCHANGED milestones
         ELSE /\ milestones' = [milestones EXCEPT ![procs[p].ent] =
                                   CompletionSaved(@, procs[p].edoc, procs[p].actor)]
              /\ Goto(p, "stats")
    /\ UNCHANGED <<rels, nextRel, notifications, sinkUp, issued, termVars, nextMil,
                   activityVars, certificates>>

\* Relationship.findByIdAndUpdate(.., {$inc: {'stats.milestonesAchieved': 1}});
\* without a certificate reward the completion notice follows at once
StatsCompleteMilestone(p) ==
    /\ At(p, "completeMilestone", "stats")
    /\ rels' = IF procs[p].rel \in DOMAIN rels
                 THEN [rels EXCEPT ![procs[p].rel].milestonesAchieved = @ + 1]
                 ELSE rels
    /\ IF procs[p].edoc.certificate
         THEN /\ Goto(p, "certificate")
              /\ UNCHANGED notifications
         ELSE AwaitNotification(p,
                  Notification(getPartner(procs[p].doc, procs[p].actor), procs[p].actor,
                               "milestone_achieved", procs[p].rel),
                  200, "Milestone completed successfully",
                  "Server error during milestone completion")
    /\ UNCHANGED <<nextRel, sinkUp, issued, deps>>

\* certificate.save(): a document that fails validation throws into the
\* catch block; otherwise one certificate_earned notice per party, then the
\* completion notice
CertificateCompleteMilestone(p) ==
    /\ At(p, "completeMilestone", "certificate")
    /\ LET c == MilestoneCertificate(procs[p].rel, procs[p].doc,
                                     procs[p].ent, procs[p].edoc) IN
         IF ~CertificateValid(c)
           THEN /\ Respond(p, 500, "Server error during milestone completion")
                /\ UNCHANGED <<certificates, notifications>>
         ELSE /\ CertificateSaved(c)
              /\ IF sinkUp
                   THEN /\ notifications' = notifications
                              (+) SetToBag({Notification(procs[p].doc.initiator, procs[p].actor,
                                                         "certificate_earned", procs[p].rel)})
                              (+) SetToBag({Notification(procs[p].doc.partner, procs[p].actor,
                                                         "certificate_earned", procs[p].rel)})
                              (+) SetToBag({Notification(getPartner(procs[p].doc, procs[p].actor),
                                                         procs[p].actor, "milestone_achieved",
                                                         procs[p].rel)})
                        /\ Respond(p, 200, "Milestone completed successfully")
                   ELSE /\ UNCHANGED notifications
                        /\ Respond(p, 500, "Server error during milestone completion")
    /\ UNCHANGED <<rels, nextRel, sinkUp, issued, termVars, milestoneVars, activityVars>>

(***************************************************************************)
(* createMilestone, updateMilestone, addEvidence, deleteMilestone          *)
(***************************************************************************)
\* ids are never reused; at most MaxDeps milestones are ever created
HasFreshMilId ==
    nextMil + Cardinality({q \in Procs : procs[q].op = "createMilestone"}) <= MaxDeps

RemoveMilestone(id) == [i \in DOMAIN milestones \ {id} |-> milestones[i]]

CheckCreateMilestone(actor, id) ==
    IF id \notin DOMAIN rels
      THEN Res(404, "Relationship not found")
    ELSE IF ~includesUser(rels[id], actor)
      THEN Res(403, "Access denied")
    ELSE IF rels[id].status # "active"
      THEN Res(400, "Can only create milestones for active relationships")
    ELSE Pass

StartCreateMilestone(p, actor, id, difficulty, certificate) ==
    /\ CanStart(p)
    /\ LET r == CheckCreateMilestone(actor, id) IN
         IF r = Pass
           THEN /\ HasFreshMilId
                /\ BeginDep(p, "createMilestone", actor, id, "save", rels[id],
                            0, NewMilestone(id, difficulty, certificate), 0)
           ELSE Reject(p, r.status, r.message)

\* milestone.save(): the insert; then the notice for the partner
SaveCreateMilestone(p) ==
    /\ At(p, "createMilestone", "save")
    /\ milestones' = milestones @@ (nextMil :> procs[p].edoc)
    /\ nextMil' = nextMil + 1
    /\ AwaitNotification(p,
           Notification(getPartner(procs[p].doc, procs[p].actor), procs[p].actor,
                        "milestone_created", procs[p].rel),
           201, "Milestone created successfully",
           "Server error during milestone creation")
    /\ UNCHANGED <<rels, nextRel, sinkUp, issued, termVars, activityVars, certificates>>

\* Milestone.findById(id).populate('relationship') and the party check shared
\* by updateMilestone, addEvidence and deleteMilestone
CheckMilestoneParty(actor, m, errorMessage) ==
    IF m \notin DOMAIN milestones
      THEN Res(404, "Milestone not found")
    ELSE IF milestones[m].relationship \notin DOMAIN rels
      THEN Res(500, errorMessage)
    ELSE IF ~includesUser(rels[milestones[m].relationship], actor)
      THEN Res(403, "Access denied")
    ELSE Pass

CheckUpdateMilestone(actor, m) ==
    LET r == CheckMilestoneParty(actor, m, "Server error during milestone update") IN
      IF r # Pass THEN r
      ELSE IF milestones[m].status = "completed"
        THEN Res(400, "Cannot update completed milestones")
      ELSE Pass

\* body is the difficulty the request carries, or Undefined when the request
\* names no allowed field
StartUpdateMilestone(p, actor, m, body) ==
    /\ CanStart(p)
    /\ LET r == CheckUpdateMilestone(actor, m) IN
         IF r = Pass
           THEN BeginWith(p, "updateMilestone", actor, milestones[m].relationship, "update",
                          rels[milestones[m].relationship], m, milestones[m], 0, body)
           ELSE Reject(p, r.status, r.message)

\* Milestone.findByIdAndUpdate(id, updates)
UpdateUpdateMilestone(p) ==
    /\ At(p, "updateMilestone", "update")
    /\ milestones' =
          IF procs[p].ent \in DOMAIN milestones /\ procs[p].body # Undefined
            THEN [milestones EXCEPT ![procs[p].ent].difficulty = procs[p].body]
            ELSE milestones
    /\ Respond(p, 200, "Milestone updated successfully")
    /\ UNCHANGED <<rels, nextRel, notifications, sinkUp, issued, termVars, nextMil,
                   activityVars, certificates>>

StartAddEvidence(p, actor, m) ==
    /\ CanStart(p)
    /\ LET r == CheckMilestoneParty(actor, m, "Server error adding evidence") IN
         IF r = Pass
           THEN BeginDep(p, "addEvidence", actor, milestones[m].relationship, "save",
                         rels[milestones[m].relationship], m, milestones[m], 0)
           ELSE Reject(p, r.status, r.message)

\* milestone.save() after evidence.push(..): a $push
SaveAddEvidence(p) ==
    /\ At(p, "addEvidence", "save")
    /\ IF procs[p].ent \notin DOMAIN milestones
         THEN /\ Respond(p, 500, "Server error adding evidence")
              /\ UNCHANGED milestones
         ELSE /\ milestones' = [milestones EXCEPT ![procs[p].ent].evidence =
                                   Append(@, procs[p].actor)]
              /\ Respond(p, 200, "Evidence added successfully")
    /\ UNCHANGED <<rels, nextRel, notifications, sinkUp, issued, termVars, nextMil,
                   activityVars, certificates>>

CheckDeleteMilestone(actor, m) ==
    LET r == CheckMilestoneParty(actor, m, "Server error during milestone deletion") IN
      IF r # Pass THEN r
      ELSE IF milestones[m].status = "completed"
        THEN Res(400, "Cannot delete completed milestones")
      ELSE Pass

StartDeleteMilestone(p, actor, m) ==
    /\ CanStart(p)
    /\ LET r == CheckDeleteMilestone(actor, m) IN
         IF r = Pass
           THEN BeginDep(p, "deleteMilestone", actor, milestones[m].relationship, "delete",
                         rels[milestones[m].relationship], m, milestones[m], 0)
           ELSE Reject(p, r.status, r.message)

\* Milestone.findByIdAndDelete(id)
DeleteDeleteMilestone(p) ==
    /\ At(p, "deleteMilestone", "delete")
    /\ milestones' = RemoveMilestone(procs[p].ent)
    /\ Respond(p, 200, "Milestone deleted successfully")
    /\ UNCHANGED <<rels, nextRel, notifications, sinkUp, issued, termVars, nextMil,
                   activityVars, certificates>>

(***************************************************************************)
(* Activity schema and createActivity                                      *)
(***************************************************************************)
\* impact.trustChange: min / max validators of the Activity schema
MinTrustChange == -10
MaxTrustChange == 10

\* stats.trustLevel: min / max of the Relationship schema, and the literals
\* createActivity clamps with
MinTrustLevel == 0
MaxTrustLevel == 100

NewActivity(relationship, createdBy, trustChange) ==
    [relationship |-> relationship,
     createdBy |-> createdBy,
     title |-> "a1",
     trustChange |-> trustChange,
     reactions |-> << >>,
     comments |-> << >>,
     version |-> 0]

\* schema validation run by activity.save()
ActivityValid(activity) ==
    /\ activity.trustChange >= MinTrustChange
    /\ activity.trustChange <= MaxTrustChange

MathMax(a, b) == IF a >= b THEN a ELSE b

MathMin(a, b) == IF a <= b THEN a ELSE b

\* variant: the sum is capped from above only
NewTrustLevel_NoFloor(trustLevel, trustChange) ==
    MathMin(MaxTrustLevel, trustLevel + trustChange)

\* Math.max(0, Math.min(100, relationship.stats.trustLevel + impact.trustChange))
NewTrustLevel(trustLevel, trustChange) ==
    MathMax(MinTrustLevel, MathMin(MaxTrustLevel, trustLevel + trustChange))

\* ids are never reused; at most MaxActs activities are ever created
HasFreshActId ==
    nextAct + Cardinality({q \in Procs : procs[q].op = "createActivity"}) <= MaxActs

CheckCreateActivity(actor, id) ==
    IF id \notin DOMAIN rels
      THEN Res(404, "Relationship not found")
    ELSE IF ~includesUser(rels[id], actor)
      THEN Res(403, "Access denied")
    ELSE IF rels[id].status # "active"
      THEN Res(400, "Can only create activities for active relationships")
    ELSE Pass

StartCreateActivity(p, actor, id, trustChange) ==
    /\ CanStart(p)
    /\ LET r == CheckCreateActivity(actor, id) IN
         IF r = Pass
           THEN /\ HasFreshActId
                /\ BeginDep(p, "createActivity", actor, id, "save", rels[id],
                            0, NullEnt, trustChange)
           ELSE Reject(p, r.status, r.message)

\* activity.save(): validation, then the insert
SaveCreateActivity(p) ==
    /\ At(p, "createActivity", "save")
    /\ LET activity == NewActivity(procs[p].rel, procs[p].actor, procs[p].arg) IN
         IF ~ActivityValid(activity)
           THEN /\ Respond(p, 500, "Server error during activity creation")
                /\ UNCHANGED <<activities, nextAct>>
           ELSE /\ activities' = activities @@ (nextAct :> activity)
                /\ nextAct' = nextAct + 1
                /\ Goto(p, "stats")
    /\ UNCHANGED <<rels, nextRel, notifications, sinkUp, issued, termVars, milestoneVars,
                   certificates>>

\* Relationship.findByIdAndUpdate(.., {$inc: {'stats.totalActivities': 1}, ..});
\* a zero or absent trustChange is falsy and skips the trust update
StatsCreateActivity(p) ==
    /\ At(p, "createActivity", "stats")
    /\ rels' = IF procs[p].rel \in DOMAIN rels
                 THEN [rels EXCEPT ![procs[p].rel].totalActivities = @ + 1]
                 ELSE rels
    /\ IF procs[p].arg # 0
         THEN /\ Goto(p, "trust")
              /\ UNCHANGED notifications
         ELSE AwaitNotification(p,
                  Notification(getPartner(procs[p].doc, procs[p].actor), procs[p].actor,
                               "activity_added", procs[p].rel),
                  201, "Activity created successfully",
                  "Server error during activity creation")
    /\ UNCHANGED <<nextRel, sinkUp, issued, deps>>

\* Relationship.findByIdAndUpdate(.., {'stats.trustLevel': ..}) computed from
\* the document loaded by the first step, then the notice for the partner
TrustCreateActivity(p) ==
    /\ At(p, "createActivity", "trust")
    /\ rels' = IF procs[p].rel \in DOMAIN rels
                 THEN [rels EXCEPT ![procs[p].rel].trustLevel =
                          NewTrustLevel(procs[p].doc.trustLevel, procs[p].arg)]
                 ELSE rels
    /\ AwaitNotification(p,
           Notification(getPartner(procs[p].doc, procs[p].actor), procs[p].actor,
                        "activity_added", procs[p].rel),
           201, "Activity created successfully",
           "Server error during activity creation")
    /\ UNCHANGED <<nextRel, sinkUp, issued, deps>>

(***************************************************************************)
(* updateActivity, addReaction, addComment, deleteActivity                 *)
(***************************************************************************)
RemoveActivity(a) == [i \in DOMAIN activities \ {a} |-> activities[i]]

CheckUpdateActivity(actor, a) ==
    IF a \notin DOMAIN activities
      THEN Res(404, "Activity not found")
    ELSE IF activities[a].createdBy # actor
      THEN Res(403, "Only the creator can update this activity")
    ELSE Pass

\* body is the title the request carries, or Undefined when the request
\* names no allowed field
StartUpdateActivity(p, actor, a, body) ==
    /\ CanStart(p)
    /\ LET r == CheckUpdateActivity(actor, a) IN
         IF r = Pass
           THEN BeginWith(p, "updateActivity", actor, activities[a].relationship, "update",
                          NullDoc, a, activities[a], 0, body)
           ELSE Reject(p, r.status, r.message)

\* Activity.findByIdAndUpdate(id, updates)
UpdateUpdateActivity(p) ==
    /\ At(p, "updateActivity", "update")
    /\ activities' =
          IF procs[p].ent \in DOMAIN activities /\ procs[p].body # Undefined
            THEN [activities EXCEPT ![procs[p].ent].title = procs[p].body]
            ELSE activities
    /\ Respond(p, 200, "Activity updated successfully")
    /\ UNCHANGED <<rels, nextRel, notifications, sinkUp, issued, termVars, milestoneVars,
                   nextAct, certificates>>

\* Activity.findById(id).populate('relationship') and the party check of
\* addReaction and addComment; a relationship that is gone populates as null
\* and the check throws
CheckActivityParty(actor, a, errorMessage) ==
    IF a \notin DOMAIN activities
      THEN Res(404, "Activity not found")
    ELSE IF activities[a].relationship \notin DOMAIN rels
      THEN Res(500, errorMessage)
    ELSE IF ~includesUser(rels[activities[a].relationship], actor)
      THEN Res(403, "Access denied")
    ELSE Pass

\* activitySchema.methods.addReaction: the user's earlier reaction is
\* filtered out, the new one is pushed
\* variant: the existing reaction of the user is not removed first
ReactionAdded_NoFilter(reactions, userId, reactionType) ==
    Append(reactions, [user |-> userId, type |-> reactionType])

ReactionAdded(reactions, userId, reactionType) ==
    Append(SelectSeq(reactions, LAMBDA r : r.user # userId),
           [user |-> userId, type |-> reactionType])

StartAddReaction(p, actor, a, reactionType) ==
    /\ CanStart(p)
    /\ LET r == CheckActivityParty(actor, a, "Server error adding reaction") IN
         IF r = Pass
           THEN BeginWith(p, "addReaction", actor, activities[a].relationship, "save",
                          rels[activities[a].relationship], a, activities[a], 0,
                          reactionType)
           ELSE Reject(p, r.status, r.message)

\* activity.save() after the reactions array was reassigned: a $set of the
\* array computed from the loaded copy.  A save that sets a whole array
\* selects the document by its id and the version key it was loaded with and
\* increments the key; when no document matches, save() throws.
SaveAddReaction(p) ==
    /\ At(p, "addReaction", "save")
    /\ IF \/ procs[p].ent \notin DOMAIN activities
          \/ activities[procs[p].ent].version # procs[p].edoc.version
         THEN /\ Respond(p, 500, "Server error adding reaction")
              /\ UNCHANGED activities
         ELSE /\ activities' = [activities EXCEPT
                    ![procs[p].ent].reactions =
                        ReactionAdded(procs[p].edoc.reactions, procs[p].actor, procs[p].body),
                    ![procs[p].ent].version = @ + 1]
              /\ Respond(p, 200, "Reaction added successfully")
    /\ UNCHANGED <<rels, nextRel, notifications, sinkUp, issued, termVars, milestoneVars,
                   nextAct, certificates>>

\* a request whose text is empty is answered 400 before anything is loaded
StartAddComment(p, actor, a, text) ==
    /\ CanStart(p)
    /\ LET r == IF text = Undefined
                  THEN Res(400, "Comment text is required")
                  ELSE CheckActivityParty(actor, a, "Server error adding comment") IN
         IF r = Pass
           THEN BeginWith(p, "addComment", actor, activities[a].relationship, "save",
                          rels[activities[a].relationship], a, activities[a], 0, text)
           ELSE Reject(p, r.status, r.message)

\* activity.save() after comments.push(..): a $push, which increments the
\* version key without selecting on it
SaveAddComment(p) ==
    /\ At(p, "addComment", "save")
    /\ IF procs[p].ent \notin DOMAIN activities
         THEN /\ Respond(p, 500, "Server error adding comment")
              /\ UNCHANGED activities
         ELSE /\ activities' = [activities EXCEPT
                    ![procs[p].ent].comments =
                        Append(@, [user |-> procs[p].actor, text |-> procs[p].body]),
                    ![procs[p].ent].version = @ + 1]
              /\ Respond(p, 200, "Comment added successfully")
    /\ UNCHANGED <<rels, nextRel, notifications, sinkUp, issued, termVars, milestoneVars,
                   nextAct, certificates>>

CheckDeleteActivity(actor, a) ==
    IF a \notin DOMAIN activities
      THEN Res(404, "Activity not found")
    ELSE IF activities[a].createdBy # actor
      THEN Res(403, "Only the creator can delete this activity")
    ELSE Pass

StartDeleteActivity(p, actor, a) ==
    /\ CanStart(p)
    /\ LET r == CheckDeleteActivity(actor, a) IN
         IF r = Pass
           THEN BeginDep(p, "deleteActivity", actor, activities[a].relationship, "delete",
                         NullDoc, a, activities[a], 0)
           ELSE Reject(p, r.status, r.message)

\* Activity.findByIdAndDelete(id)
DeleteDeleteActivity(p) ==
    /\ At(p, "deleteActivity", "delete")
    /\ activities' = RemoveActivity(procs[p].ent)
    /\ Goto(p, "stats")
    /\ UNCHANGED <<rels, nextRel, notifications, sinkUp, issued, termVars, milestoneVars,
                   nextAct, certificates>>

\* Relationship.findByIdAndUpdate(.., {$inc: {'stats.totalActivities': -1}})
StatsDeleteActivity(p) ==
    /\ At(p, "deleteActivity", "stats")
    /\ rels' = IF procs[p].rel \in DOMAIN rels
                 THEN [rels EXCEPT ![procs[p].rel].totalActivities = @ - 1]
                 ELSE rels
    /\ Respond(p, 200, "Activity deleted successfully")
    /\ UNCHANGED <<nextRel, notifications, sinkUp, issued, deps>>

(***************************************************************************)
(* updateRelationship and generateRelationshipCertificate                  *)
(***************************************************************************)
\* variant: the update skips the membership check
CheckUpdateRelationship_NoPartyCheck(actor, id) ==
    IF id \notin DOMAIN rels
      THEN Res(404, "Relationship not found")
    ELSE IF rels[id].status # "active"
      THEN Res(400, "Can only update active relationships")
    ELSE Pass

CheckUpdateRelationship(actor, id) ==
    IF id \notin DOMAIN rels
      THEN Res(404, "Relationship not found")
    ELSE IF ~includesUser(rels[id], actor)
      THEN Res(403, "Access denied")
    ELSE IF rels[id].status # "active"
      THEN Res(400, "Can only update active relationships")
    ELSE Pass

\* Object.keys(req.body) of the request bodies of updateRelationship: one
\* that names no field, one that names the title, and one that names every
\* path of the document
BodyKeys(body) ==
    CASE body = "title" -> {"title"}
      [] body = "all" -> DOMAIN NullDoc
      [] OTHER -> {}

\* req.body[key]: the value the request carries for a path
BodyValue(key) ==
    CASE key = "title" -> "r2"
      [] key = "status" -> "ended"
      [] key \in {"initiator", "partner", "breakupRequestedBy"} -> "C"
      [] key \in {"acceptedDate", "endDate"} -> TRUE
      [] OTHER -> 0

\* variant: the whitelist lets the status through
allowedUpdates_WithStatus ==
    {"title", "description", "type", "privacy", "tags", "customFields", "status"}

allowedUpdates == {"title", "description", "type", "privacy", "tags", "customFields"}

\* the update document: the keys of the body that are on the whitelist
Updates(body) == {key \in BodyKeys(body) : key \in allowedUpdates}

\* findByIdAndUpdate's $set of the update document
Updated(doc, updates) ==
    [path \in DOMAIN doc |-> IF path \in updates THEN BodyValue(path) ELSE doc[path]]

StartUpdateRelationship(p, actor, id, body) ==
    /\ CanStart(p)
    /\ LET r == CheckUpdateRelationship(actor, id) IN
         IF r = Pass
           THEN BeginWith(p, "updateRelationship", actor, id, "update", rels[id],
                          0, NullEnt, 0, body)
           ELSE Reject(p, r.status, r.message)

\* Relationship.findByIdAndUpdate(id, updates)
UpdateUpdateRelationship(p) ==
    /\ At(p, "updateRelationship", "update")
    /\ rels' = IF procs[p].rel \in DOMAIN rels
                 THEN [rels EXCEPT ![procs[p].rel] = Updated(@, Updates(procs[p].body))]
                 ELSE rels
    /\ Respond(p, 200, "Relationship updated successfully")
    /\ UNCHANGED <<nextRel, notifications, sinkUp, issued, deps>>

\* the checks, then the drawing code reads newCertificate, a const of the
\* 'end' callback, outside its scope: the ReferenceError lands in the catch
\* block before doc.end(), so the callback that would create the Certificate
\* and save latestCertificate never runs
CheckGenerateRelationshipCertificate(actor, id) ==
    IF id \notin DOMAIN rels
      THEN Res(404, "Relationship not found")
    ELSE IF ~includesUser(rels[id], actor)
      THEN Res(403, "Access denied. You are not part of this relationship.")
    ELSE Res(500, "Server error generating relationship certificate")

GenerateRelationshipCertificate(p, actor, id) ==
    /\ CanStart(p)
    /\ LET r == CheckGenerateRelationshipCertificate(actor, id) IN
         Reject(p, r.status, r.message)

(***************************************************************************)
(* The dependent-entity coordinators, each started from the store holding  *)
(* the active relationship of A and B and exercised by any user.           *)
(***************************************************************************)
DepIds == 1..MaxDeps

ActiveStore(trustLevel, notices) ==
    /\ rels = (1 :> [Accepted(NewRelationship("A", "B")) EXCEPT !.trustLevel = trustLevel])
    /\ nextRel = 2
    /\ sinkUp \in BOOLEAN
    /\ notifications =
          IF sinkUp
            THEN SetToBag({Notification("B", "A", "relationship_invite", 1),
                           Notification("A", "B", "relationship_accepted", 1)} \cup notices)
            ELSE EmptyBag
    /\ procs = [p \in Procs |-> IdleProc]
    /\ lastRes = NoRes
    /\ issued = 0

\* A has proposed one term
InitTerm ==
    /\ ActiveStore(DefaultTrustLevel, {Notification("B", "A", "term_proposed", 1)})
    /\ terms = (1 :> NewTerm(1, "A", "t1"))
    /\ nextTerm = 2
    /\ milestones = << >>
    /\ nextMil = 1
    /\ activities = << >>
    /\ nextAct = 1
    /\ certificates = << >>

\* what a request body of updateTerm may carry for the title
TermUpdates == {Undefined, "t2"}

NextTerm ==
    \/ \E p \in Procs, actor \in Users, t \in DepIds : StartAgreeTerm(p, actor, t)
    \/ \E p \in Procs : SaveAgreeTerm(p)
    \/ \E p \in Procs, actor \in Users, t \in DepIds, body \in TermUpdates :
          StartUpdateTerm(p, actor, t, body)
    \/ \E p \in Procs : UpdateUpdateTerm(p)
    \/ \E p \in Procs, actor \in Users, t \in DepIds : StartReportViolation(p, actor, t)
    \/ \E p \in Procs : SaveReportViolation(p)
    \/ \E p \in Procs, actor \in Users, t \in DepIds : StartDeleteTerm(p, actor, t)
    \/ \E p \in Procs : DeleteDeleteTerm(p)

SpecTerm == InitTerm /\ [][NextTerm]_vars

\* A has created one milestone, of any difficulty, with or without a
\* certificate reward
InitMilestone ==
    /\ ActiveStore(DefaultTrustLevel, {Notification("B", "A", "milestone_created", 1)})
    /\ terms = << >>
    /\ nextTerm = 1
    /\ \E difficulty \in Difficulties, certificate \in BOOLEAN :
          milestones = (1 :> NewMilestone(1, difficulty, certificate))
    /\ nextMil = 2
    /\ activities = << >>
    /\ nextAct = 1
    /\ certificates = << >>

\* what a request body of updateMilestone may carry for the difficulty
MilestoneUpdates == {Undefined, "expert"}

NextMilestone ==
    \/ \E p \in Procs, actor \in Users, m \in DepIds : StartCompleteMilestone(p, actor, m)
    \/ \E p \in Procs : SaveCompleteMilestone(p)
    \/ \E p \in Procs : StatsCompleteMilestone(p)
    \/ \E p \in Procs : CertificateCompleteMilestone(p)
    \/ \E p \in Procs, actor \in Users, m \in DepIds, body \in MilestoneUpdates :
          StartUpdateMilestone(p, actor, m, body)
    \/ \E p \in Procs : UpdateUpdateMilestone(p)
    \/ \E p \in Procs, actor \in Users, m \in DepIds : StartAddEvidence(p, actor, m)
    \/ \E p \in Procs : SaveAddEvidence(p)
    \/ \E p \in Procs, actor \in Users, m \in DepIds : StartDeleteMilestone(p, actor, m)
    \/ \E p \in Procs : DeleteDeleteMilestone(p)

SpecMilestone == InitMilestone /\ [][NextMilestone]_vars

\* trust levels that earlier activities, since deleted, have left behind
InitialTrustLevels == {5, 50, 95}

\* impact.trustChange as sent in the request body
TrustChanges == {-20, -10, 0, 10, 20}

InitActivity ==
    /\ \E trustLevel \in InitialTrustLevels : ActiveStore(trustLevel, {})
    /\ NoDeps

NextActivity ==
    \/ \E p \in Procs, actor \in Users, id \in RelIds, trustChange \in TrustChanges :
          StartCreateActivity(p, actor, id, trustChange)
    \/ \E p \in Procs : SaveCreateActivity(p)
    \/ \E p \in Procs : StatsCreateActivity(p)
    \/ \E p \in Procs : TrustCreateActivity(p)

SpecActivity == InitActivity /\ [][NextActivity]_vars

\* creation of dependents on the active relationship of A and B while the
\* parties may request a breakup or archive it
CreateTrustChanges == {MaxTrustChange}

NextCreate ==
    \/ \E p \in Procs, actor \in Users, id \in RelIds :
          StartCreateTerm(p, actor, id, "t1")
    \/ \E p \in Procs : SaveCreateTerm(p)
    \/ \E p \in Procs, actor \in Users, id \in RelIds :
          StartCreateMilestone(p, actor, id, "medium", TRUE)
    \/ \E p \in Procs : SaveCreateMilestone(p)
    \/ \E p \in Procs, actor \in Users, id \in RelIds, trustChange \in CreateTrustChanges :
          StartCreateActivity(p, actor, id, trustChange)
    \/ \E p \in Procs : SaveCreateActivity(p)
    \/ \E p \in Procs : StatsCreateActivity(p)
    \/ \E p \in Procs : TrustCreateActivity(p)
    \/ \E p \in Procs, actor \in Users, id \in RelIds : StartRequestBreakup(p, actor, id)
    \/ \E p \in Procs : SaveRequestBreakup(p)
    \/ \E p \in Procs, actor \in Users, id \in RelIds : StartDeleteRelationship(p, actor, id)
    \/ \E p \in Procs : SaveArchiveRelationship(p)
    \/ \E p \in Procs : DeleteDeleteRelationship(p)

SpecCreate == InitActive /\ [][NextCreate]_vars

(***************************************************************************)
(* Every mutating handler, exercised by any user, started from the store   *)
(* holding the relationship of A and B, either still pending or accepted   *)
(* and carrying one term, one milestone and one activity created by A.     *)
(***************************************************************************)
InitAll ==
    /\ nextRel = 2
    /\ sinkUp = TRUE
    /\ procs = [p \in Procs |-> IdleProc]
    /\ lastRes = NoRes
    /\ issued = MaxOps - 3
    /\ \/ /\ rels = (1 :> NewRelationship("A", "B"))
          /\ notifications = SetToBag({Notification("B", "A", "relationship_invite", 1)})
          /\ NoDeps
       \/ /\ rels = (1 :> [Accepted(NewRelationship("A", "B")) EXCEPT !.totalActivities = 1])
          /\ notifications =
                SetToBag({Notification("B", "A", "relationship_invite", 1),
                          Notification("A", "B", "relationship_accepted", 1),
                          Notification("B", "A", "term_proposed", 1),
                          Notification("B", "A", "milestone_created", 1),
                          Notification("B", "A", "activity_added", 1)})
          /\ terms = (1 :> NewTerm(1, "A", "t1"))
          /\ nextTerm = 2
          /\ milestones = (1 :> NewMilestone(1, "medium", TRUE))
          /\ nextMil = 2
          /\ activities = (1 :> NewActivity(1, "A", 0))
          /\ nextAct = 2
          /\ certificates = << >>

NextAll ==
    \/ \E p \in Procs, actor \in Users, id \in RelIds : StartAcceptRelationship(p, actor, id)
    \/ \E p \in Procs : SaveAcceptRelationship(p)
    \/ \E p \in Procs, actor \in Users, id \in RelIds : StartDeclineRelationship(p, actor, id)
    \/ \E p \in Procs : DeleteDeclineRelationship(p)
    \/ \E p \in Procs, actor \in Users, id \in RelIds : StartDeleteRelationship(p, actor, id)
    \/ \E p \in Procs : SaveArchiveRelationship(p)
    \/ \E p \in Procs : DeleteDeleteRelationship(p)
    \/ \E p \in Procs, actor \in Users, id \in RelIds : StartRequestBreakup(p, actor, id)
    \/ \E p \in Procs : SaveRequestBreakup(p)
    \/ \E p \in Procs, actor \in Users, id \in RelIds : StartConfirmBreakup(p, actor, id)
    \/ \E p \in Procs : SaveConfirmBreakup(p)
    \/ \E p \in Procs, actor \in Users, id \in RelIds : StartCancelBreakupRequest(p, actor, id)
    \/ \E p \in Procs : SaveCancelBreakupRequest(p)
    \/ \E p \in Procs, actor \in Users, id \in RelIds, body \in {"none", "title", "all"} :
          StartUpdateRelationship(p, actor, id, body)
    \/ \E p \in Procs : UpdateUpdateRelationship(p)
    \/ \E p \in Procs, actor \in Users, id \in RelIds :
          GenerateRelationshipCertificate(p, actor, id)
    \/ \E p \in Procs, actor \in Users, id \in RelIds :
          StartCreateTerm(p, actor, id, "t1")
    \/ \E p \in Procs : SaveCreateTerm(p)
    \/ \E p \in Procs, actor \in Users, t \in DepIds : StartAgreeTerm(p, actor, t)
    \/ \E p \in Procs : SaveAgreeTerm(p)
    \/ \E p \in Procs, actor \in Users, t \in DepIds : StartUpdateTerm(p, actor, t, "t2")
    \/ \E p \in Procs : UpdateUpdateTerm(p)
    \/ \E p \in Procs, actor \in Users, t \in DepIds : StartReportViolation(p, actor, t)
    \/ \E p \in Procs : SaveReportViolation(p)
    \/ \E p \in Procs, actor \in Users, t \in DepIds : StartDeleteTerm(p, actor, t)
    \/ \E p \in Procs : DeleteDeleteTerm(p)
    \/ \E p \in Procs, actor \in Users, id \in RelIds :
          StartCreateMilestone(p, actor, id, "medium", TRUE)
    \/ \E p \in Procs : SaveCreateMilestone(p)
    \/ \E p \in Procs, actor \in Users, m \in DepIds : StartCompleteMilestone(p, actor, m)
    \/ \E p \in Procs : SaveCompleteMilestone(p)
    \/ \E p \in Procs : StatsCompleteMilestone(p)
    \/ \E p \in Procs : CertificateCompleteMilestone(p)
    \/ \E p \in Procs, actor \in Users, m \in DepIds :
          StartUpdateMilestone(p, actor, m, "expert")
    \/ \E p \in Procs : UpdateUpdateMilestone(p)
    \/ \E p \in Procs, actor \in Users, m \in DepIds : StartAddEvidence(p, actor, m)
    \/ \E p \in Procs : SaveAddEvidence(p)
    \/ \E p \in Procs, actor \in Users, m \in DepIds : StartDeleteMilestone(p, actor, m)
    \/ \E p \in Procs : DeleteDeleteMilestone(p)
    \/ \E p \in Procs, actor \in Users, id \in RelIds, trustChange \in CreateTrustChanges :
          StartCreateActivity(p, actor, id, trustChange)
    \/ \E p \in Procs : SaveCreateActivity(p)
    \/ \E p \in Procs : StatsCreateActivity(p)
    \/ \E p \in Procs : TrustCreateActivity(p)
    \/ \E p \in Procs, actor \in Users, a \in DepIds : StartUpdateActivity(p, actor, a, "a2")
    \/ \E p \in Procs : UpdateUpdateActivity(p)
    \/ \E p \in Procs, actor \in Users, a \in DepIds : StartAddReaction(p, actor, a, "like")
    \/ \E p \in Procs : SaveAddReaction(p)
    \/ \E p \in Procs, actor \in Users, a \in DepIds : StartAddComment(p, actor, a, "c1")
    \/ \E p \in Procs : SaveAddComment(p)
    \/ \E p \in Procs, actor \in Users, a \in DepIds : StartDeleteActivity(p, actor, a)
    \/ \E p \in Procs : DeleteDeleteActivity(p)
    \/ \E p \in Procs : StatsDeleteActivity(p)

SpecAll == InitAll /\ [][NextAll]_vars

(***************************************************************************)
(* Reactions and comments on the one activity that A created on the active *)
(* relationship of A and B.                                                *)
(***************************************************************************)
InitReaction ==
    /\ ActiveStore(DefaultTrustLevel, {Notification("B", "A", "activity_added", 1)})
    /\ terms = << >>
    /\ nextTerm = 1
    /\ milestones = << >>
    /\ nextMil = 1
    /\ activities = (1 :> NewActivity(1, "A", 0))
    /\ nextAct = 2
    /\ certificates = << >>

\* the reaction types of the requests are two of the schema's enum
NextReaction ==
    \/ \E p \in Procs, actor \in Users, a \in DepIds, reactionType \in {"like", "love"} :
          StartAddReaction(p, actor, a, reactionType)
    \/ \E p \in Procs : SaveAddReaction(p)
    \/ \E p \in Procs, actor \in Users, a \in DepIds : StartAddComment(p, actor, a, "c1")
    \/ \E p \in Procs : SaveAddComment(p)
    \/ \E p \in Procs, actor \in Users, a \in DepIds : StartUpdateActivity(p, actor, a, "a2")
    \/ \E p \in Procs : UpdateUpdateActivity(p)

SpecReaction == InitReaction /\ [][NextReaction]_vars

(***************************************************************************)
(* Certificates: isValid, revoke, getCertificate, downloadCertificate,     *)
(* shareCertificate.  new Date() is an input of the request that reads it. *)
(***************************************************************************)
MaxTime == 2

Times == 1..MaxTime

\* variant: a revoked certificate still counts as valid
isValid_IgnoresRevoked(c, now) ==
    IF c.validUntil # 0 /\ now > c.validUntil THEN FALSE
    ELSE TRUE

isValid(c, now) ==
    IF c.isRevoked THEN FALSE
    ELSE IF c.validUntil # 0 /\ now > c.validUntil THEN FALSE
    ELSE TRUE

\* the load and the checks shared by getCertificate, downloadCertificate and
\* shareCertificate; validUntil = 0 stands for a date that is not set
LoadCertificate(p, op, actor, c, now, platform) ==
    IF c \notin DOMAIN certificates
      THEN Reject(p, 404, "Certificate not found")
    ELSE IF actor \notin certificates[c].recipients
      THEN Reject(p, 403, "Access denied")
    ELSE IF ~isValid(certificates[c], now)
      THEN Reject(p, 400, "Certificate is no longer valid")
    ELSE BeginWith(p, op, actor, 0, "save", NullDoc, c, certificates[c], now, platform)

\* variant: save() writes every path of the loaded copy
CertificateWritten_WholeDocument(stored, loaded, paths) == loaded

\* certificate.save(): the paths the handler modified are set to the values
\* of the loaded copy, the other paths of the stored document stay
CertificateWritten(stored, loaded, paths) ==
    [path \in DOMAIN stored |-> IF path \in paths THEN loaded[path] ELSE stored[path]]

SaveCertificate(p, loaded, paths, sharedOn, message) ==
    /\ certificates' = [certificates EXCEPT ![procs[p].ent] =
                           [CertificateWritten(@, loaded, paths) EXCEPT !.sharedOn = sharedOn]]
    /\ Respond(p, 200, message)
    /\ UNCHANGED <<rels, nextRel, notifications, sinkUp, issued, termVars, milestoneVars,
                   activityVars>>

StartGetCertificate(p, actor, c, now) ==
    /\ CanStart(p)
    /\ LoadCertificate(p, "getCertificate", actor, c, now, Undefined)

\* certificate.incrementView(): stats.viewCount += 1, then save()
SaveGetCertificate(p) ==
    /\ At(p, "getCertificate", "save")
    /\ SaveCertificate(p, [procs[p].edoc EXCEPT !.viewCount = @ + 1], {"viewCount"},
                       certificates[procs[p].ent].sharedOn, "certificate")

StartDownloadCertificate(p, actor, c, now) ==
    /\ CanStart(p)
    /\ LoadCertificate(p, "downloadCertificate", actor, c, now, Undefined)

SaveDownloadCertificate(p) ==
    /\ At(p, "downloadCertificate", "save")
    /\ SaveCertificate(p, [procs[p].edoc EXCEPT !.downloadCount = @ + 1], {"downloadCount"},
                       certificates[procs[p].ent].sharedOn, "certificate pdf")

StartShareCertificate(p, actor, c, now, platform) ==
    /\ CanStart(p)
    /\ LoadCertificate(p, "shareCertificate", actor, c, now, platform)

\* sharedOn.push(platform) when the loaded copy does not list it: a $push
\* onto the stored array; both share counters are set from the loaded copy
SaveShareCertificate(p) ==
    /\ At(p, "shareCertificate", "save")
    /\ LET loaded == procs[p].edoc
           platform == procs[p].body
           stored == certificates[procs[p].ent].sharedOn IN
         SaveCertificate(p,
             [loaded EXCEPT !.sharingShareCount = @ + 1, !.shareCount = @ + 1],
             {"sharingShareCount", "shareCount"},
             IF platform # Undefined /\ \A i \in DOMAIN loaded.sharedOn :
                                            loaded.sharedOn[i] # platform
               THEN Append(stored, platform)
               ELSE stored,
             "Certificate sharing recorded successfully")

\* certificate.revoke(reason) on a stored certificate, saved at once; no
\* route calls the method
RevokeCertificate(c) ==
    /\ c \in DOMAIN certificates
    /\ ~certificates[c].isRevoked
    /\ certificates' = [certificates EXCEPT ![c].isRevoked = TRUE]
    /\ UNCHANGED <<rels, nextRel, notifications, sinkUp, procs, lastRes, issued, termVars,
                   milestoneVars, activityVars>>

\* a relationship certificate as Certificate.create builds it in
\* generateRelationshipCertificate
RelationshipCertificate(id, doc, number, validUntil) ==
    [NewCertificate([relatedTo |-> "relationship",
                     relatedId |-> id,
                     type |-> "relationship",
                     level |-> "gold",
                     recipients |-> {doc.initiator, doc.partner}])
       EXCEPT !.certificateNumber = number, !.validUntil = validUntil]

\* the active relationship of A and B and its certificate, with or without
\* an expiry date
InitCertificate ==
    /\ ActiveStore(DefaultTrustLevel, {})
    /\ sinkUp
    /\ terms = << >>
    /\ nextTerm = 1
    /\ milestones = << >>
    /\ nextMil = 1
    /\ activities = << >>
    /\ nextAct = 1
    /\ \E validUntil \in {0} \cup Times :
          certificates = <<RelationshipCertificate(1, rels[1], 1, validUntil)>>

\* save() of a new, valid certificate: the pre('save') hook sets the number
\* it generated from Date.now() and Math.random(), the insert fails on the unique index when a stored
\* certificate has that number, and the error reaches the caller's catch
IssueCertificate(id, validUntil, number) ==
    /\ issued < MaxOps
    /\ Len(certificates) < MaxDeps
    /\ id \in DOMAIN rels
    /\ issued' = issued + 1
    /\ IF \E c \in DOMAIN certificates : certificates[c].certificateNumber = number
         THEN /\ lastRes' = Res(500, "E11000 duplicate key error")
              /\ UNCHANGED certificates
         ELSE /\ lastRes' = Res(201, "certificate")
              /\ CertificateSaved(RelationshipCertificate(id, rels[id], number, validUntil))
    /\ UNCHANGED <<rels, nextRel, notifications, sinkUp, procs, termVars, milestoneVars,
                   activityVars>>

NextCertificate ==
    \/ \E p \in Procs, actor \in Users, c \in DepIds, now \in Times :
          StartGetCertificate(p, actor, c, now)
    \/ \E p \in Procs : SaveGetCertificate(p)
    \/ \E p \in Procs, actor \in Users, c \in DepIds, now \in Times :
          StartDownloadCertificate(p, actor, c, now)
    \/ \E p \in Procs : SaveDownloadCertificate(p)
    \/ \E p \in Procs, actor \in Users, c \in DepIds, now \in Times, platform \in {"fb", "x"} :
          StartShareCertificate(p, actor, c, now, platform)
    \/ \E p \in Procs : SaveShareCertificate(p)
    \/ \E c \in DepIds : RevokeCertificate(c)

SpecCertificate == InitCertificate /\ [][NextCertificate]_vars

\* certificates being issued next to the one in the store, viewed and revoked
NextIssue ==
    \/ \E id \in RelIds, validUntil \in {0} \cup Times, number \in 1..MaxDeps :
          IssueCertificate(id, validUntil, number)
    \/ \E p \in Procs, actor \in Users, c \in DepIds, now \in Times :
          StartGetCertificate(p, actor, c, now)
    \/ \E p \in Procs : SaveGetCertificate(p)
    \/ \E c \in DepIds : RevokeCertificate(c)

SpecIssue == InitCertificate /\ [][NextIssue]_vars

\* the lifecycle handlers together with updateRelationship, whose body names
\* every path of the document
NextParties ==
    \/ Next
    \/ \E p \in Procs, actor \in Users, id \in RelIds :
          StartUpdateRelationship(p, actor, id, "all")
    \/ \E p \in Procs : UpdateUpdateRelationship(p)

SpecParties == Init /\ [][NextParties]_vars

(***************************************************************************)
(* Properties                                                              *)
(***************************************************************************)
Pair(doc) == {doc.initiator, doc.partner}

Kept(id) == id \in DOMAIN rels /\ id \in DOMAIN rels'

StatusChanged(id) == Kept(id) /\ rels'[id].status # rels[id].status

\* C1: in every reachable state at most one Relationship document exists for
\* any unordered pair {initiator, partner}, also after concurrent proposals.
C1_OneDocumentPerPair ==
    \A i, j \in DOMAIN rels : i # j => Pair(rels[i]) # Pair(rels[j])

C3_OnlyRequesterCancels ==
    [][\A p \in Procs, actor \in Users, id \in RelIds :
            (/\ StartCancelBreakupRequest(p, actor, id)
             /\ id \in DOMAIN rels
             /\ rels[id].status = "requested_breakup"
             /\ rels[id].breakupRequestedBy # actor)
            => (/\ lastRes'.status = 403
                /\ procs'[p].pc = "idle"
                /\ rels' = rels)]_vars

C3_Witness ==
    /\ lastRes = Res(403, "Only the initiator can cancel the breakup request")
    /\ \E id \in DOMAIN rels :
         rels[id].status = "requested_breakup" /\ rels[id].breakupRequestedBy # NoUser

\* C4: lifecycle transitions are compare-and-set on status: a transition
\* writes only while the status is still the one its guard was checked
\* against, so of two concurrent transitions guarded on the same status the
\* later writer never overwrites what the earlier one wrote.
C4_TransitionsAreCompareAndSet ==
    [][\A p \in Procs :
            (/\ procs[p].pc = "save"
             /\ procs[p].op \in {"acceptRelationship", "deleteRelationship", "requestBreakup",
                                 "confirmBreakup", "cancelBreakupRequest"}
             /\ procs'[p].pc = "idle"
             /\ procs[p].rel \in DOMAIN rels
             /\ rels[procs[p].rel].status # procs[p].doc.status)
            => rels' = rels]_vars

\* C7: for distinct users with no relationship between them, propose yields a
\* pending Relationship from proposer to partner; accept by the partner of a
\* pending relationship yields active with acceptedDate set; requestBreakup
\* by a party of an active one yields requested_breakup with
\* breakupRequestedBy = that party; confirmBreakup by the other party yields
\* ended with endDate set.
C7_LifecycleScenario ==
    [][/\ \A p \in Procs, a \in Users, b \in Users :
            (/\ StartCreateRelationship(p, a, b)
             /\ a # b
             /\ \A i \in DOMAIN rels : Pair(rels[i]) # {a, b})
            => procs'[p].pc = "save"
       /\ \A p \in Procs :
            (/\ SaveCreateRelationship(p)
             /\ \A i \in DOMAIN rels : Pair(rels[i]) # Pair(procs[p].doc))
            => \E id \in DOMAIN rels' \ DOMAIN rels :
                 /\ rels'[id].status = "pending"
                 /\ rels'[id].initiator = procs[p].actor
                 /\ rels'[id].partner = procs[p].doc.partner
                 /\ ~rels'[id].acceptedDate /\ ~rels'[id].endDate
       /\ \A p \in Procs, u \in Users, id \in RelIds :
            (id \in DOMAIN rels /\ includesUser(rels[id], u)) =>
              /\ (/\ StartAcceptRelationship(p, u, id)
                  /\ rels[id].status = "pending" /\ rels[id].partner = u)
                 => procs'[p].pc = "save"
              /\ (/\ StartRequestBreakup(p, u, id)
                  /\ rels[id].status = "active")
                 => procs'[p].pc = "save"
              /\ (/\ StartConfirmBreakup(p, u, id)
                  /\ rels[id].status = "requested_breakup"
                  /\ rels[id].breakupRequestedBy # u)
                 => procs'[p].pc = "save"
       /\ \A p \in Procs :
            LET id == procs[p].rel IN
            (procs[p].pc = "save" /\ procs'[p].pc = "idle" /\ id \in DOMAIN rels) =>
              /\ (procs[p].op = "acceptRelationship" /\ rels[id].status = "pending")
                 => /\ rels'[id].status = "active" /\ rels'[id].acceptedDate
                    /\ lastRes'.status = IF sinkUp THEN 200 ELSE 500
              /\ (procs[p].op = "requestBreakup" /\ rels[id].status = "active")
                 => /\ rels'[id].status = "requested_breakup"
                    /\ rels'[id].breakupRequestedBy = procs[p].actor
                    /\ lastRes'.status = 200
              /\ (procs[p].op = "confirmBreakup" /\ rels[id].status = "requested_breakup")
                 => /\ rels'[id].status = "ended" /\ rels'[id].endDate
                    /\ lastRes'.status = 200]_vars

C7_Witness ==
    \E id \in DOMAIN rels :
        /\ rels[id].initiator = "A" /\ rels[id].partner = "B"
        /\ rels[id].status = "ended"
        /\ rels[id].breakupRequestedBy = "A"
        /\ rels[id].acceptedDate /\ rels[id].endDate
        /\ lastRes = Res(200, "Breakup confirmed successfully")

AllowedStatusChanges ==
    {<<"pending", "active">>, <<"active", "requested_breakup">>,
     <<"requested_breakup", "ended">>, <<"requested_breakup", "active">>,
     <<"active", "archived">>}

\* C8: every change of a Relationship's status is one of pending->active,
\* active->requested_breakup, requested_breakup->ended,
\* requested_breakup->active, active->archived; ended and archived
\* relationships never change status again.
C8_OnlyLifecycleStatusChanges ==
    [][\A id \in RelIds :
            StatusChanged(id) =>
                <<rels[id].status, rels'[id].status>> \in AllowedStatusChanges]_vars

C5_OneAgreementPerUser ==
    \A t \in DOMAIN terms : \A u \in Users :
        Cardinality({i \in DOMAIN terms[t].agreedBy : terms[t].agreedBy[i] = u}) <= 1

\* C6: two concurrent completeMilestone calls on one Milestone increment the
\* owning Relationship's milestonesAchieved exactly once and create at most
\* one Certificate: the counter never exceeds the number of completed
\* milestones of the relationship and no milestone has two certificates.
C6_MilestoneCompletedOnce ==
    /\ \A r \in DOMAIN rels :
          rels[r].milestonesAchieved <=
              Cardinality({m \in DOMAIN milestones :
                              /\ milestones[m].relationship = r
                              /\ milestones[m].status = "completed"})
    /\ \A m \in DOMAIN milestones :
          Cardinality({i \in DOMAIN certificates :
                          /\ certificates[i].relatedTo = "milestone"
                          /\ certificates[i].relatedId = m}) <= 1

TrustInRange ==
    \A id \in DOMAIN rels :
        rels[id].trustLevel >= MinTrustLevel /\ rels[id].trustLevel <= MaxTrustLevel

ExpectedTrustLevel(t, d) ==
    IF t + d < MinTrustLevel THEN MinTrustLevel
    ELSE IF t + d > MaxTrustLevel THEN MaxTrustLevel
    ELSE t + d

\* the step of createActivity in slot p that follows the step at pc
CreateActivityStep(p, pc) == At(p, "createActivity", pc) /\ procs'[p] # procs[p]

\* the trust write of a createActivity stores the loaded trustLevel plus the
\* request's trustChange, clamped; a zero trustChange writes no trust
TrustWriteClamped(p) ==
    /\ (CreateActivityStep(p, "trust") /\ Kept(procs[p].rel))
         => rels'[procs[p].rel].trustLevel =
                ExpectedTrustLevel(procs[p].doc.trustLevel, procs[p].arg)
    /\ (CreateActivityStep(p, "stats") /\ Kept(procs[p].rel) /\ procs[p].arg = 0)
         => rels'[procs[p].rel].trustLevel = rels[procs[p].rel].trustLevel

\* C10 as stated: createActivity with impact.trustChange = d on a relationship
\* whose trustLevel is t yields trustLevel = max(0, min(100, t + d)) for every
\* d (d = -20 on t = 5 yields 0): a request with d # 0 that passed the
\* relationship checks goes on to the trust write, the write stores the
\* clamped sum, and trustLevel is within [0, 100] in every reachable state.
C10_TrustImpactClamped ==
    /\ []TrustInRange
    /\ [][\A p \in Procs :
            /\ (CreateActivityStep(p, "save") /\ procs[p].arg # 0)
                 => procs'[p].pc = "stats"
            /\ TrustWriteClamped(p)]_vars

\* C10 (amended): for d within the schema's range -10..10, createActivity on a
\* relationship whose trustLevel is t yields trustLevel = max(0, min(100, t + d))
\* (d = -10 on t = 5 yields 0); a request with d outside that range fails
\* validation, is answered 500 and leaves trustLevel as it is; trustLevel is
\* within [0, 100] in every reachable state.
C10_ValidTrustImpactClamped ==
    /\ []TrustInRange
    /\ [][\A p \in Procs :
            /\ CreateActivityStep(p, "save")
                 => IF procs[p].arg >= MinTrustChange /\ procs[p].arg <= MaxTrustChange
                      THEN procs'[p].pc = "stats"
                      ELSE /\ procs'[p].pc = "idle"
                           /\ lastRes'.status = 500
                           /\ rels' = rels
            /\ TrustWriteClamped(p)]_vars

C10_Witness ==
    /\ lastRes = Res(201, "Activity created successfully")
    /\ \E a \in DOMAIN activities :
          /\ activities[a].trustChange < 0
          /\ activities[a].relationship \in DOMAIN rels
          /\ rels[activities[a].relationship].trustLevel = MinTrustLevel
          /\ rels[activities[a].relationship].totalActivities = 1

\* C11: completeMilestone by a party on a not yet completed Milestone with
\* rewards.certificate = true creates exactly one Certificate whose recipients
\* are the relationship's initiator and partner and whose level follows the
\* difficulty (expert: platinum, hard: gold, medium: silver, otherwise
\* bronze), and raises the Relationship's milestonesAchieved by exactly 1.
C11_CompletionIssuesCertificate ==
    [][\A p \in Procs :
          /\ (/\ At(p, "completeMilestone", "stats") /\ procs'[p] # procs[p]
              /\ Kept(procs[p].rel))
               => rels'[procs[p].rel].milestonesAchieved =
                      rels[procs[p].rel].milestonesAchieved + 1
          /\ (At(p, "completeMilestone", "certificate") /\ procs'[p] # procs[p])
               => /\ Len(certificates') = Len(certificates) + 1
                  /\ LET c == certificates'[Len(certificates')]
                         difficulty == procs[p].edoc.difficulty IN
                       /\ c.recipients = Pair(procs[p].doc)
                       /\ c.level = CASE difficulty = "expert" -> "platinum"
                                      [] difficulty = "hard" -> "gold"
                                      [] difficulty = "medium" -> "silver"
                                      [] OTHER -> "bronze"]_vars

\* C14: completeMilestone on a Milestone with rewards.certificate set never
\* leaves the Milestone completed and counted without its Certificate: once
\* no completion of the milestone is in flight, a completed milestone with
\* the reward has a Certificate.
C14_CompletionAllOrNothing ==
    \A m \in DOMAIN milestones :
        (/\ milestones[m].certificate
         /\ milestones[m].status = "completed"
         /\ \A p \in Procs : ~(procs[p].op = "completeMilestone" /\ procs[p].ent = m))
        => \E i \in DOMAIN certificates :
              certificates[i].relatedTo = "milestone" /\ certificates[i].relatedId = m

\* the users listed in a Term's agreedBy
Agreers(term) == {term.agreedBy[i] : i \in DOMAIN term.agreedBy}

\* the parties of the relationship a Term belongs to
TermParties(term) ==
    IF term.relationship \in DOMAIN rels THEN Pair(rels[term.relationship]) ELSE {}

\* C12: updateTerm by the creator on a Term that is not agreed, naming at
\* least one mutable field, is accepted and leaves the Term with status
\* modified and agreedBy empty whatever agreements were recorded before; and a
\* Term in status modified becomes agreed only with both parties listed in
\* agreedBy, so both must agree again after the edit.
C12_EditResetsAgreements ==
    [][/\ \A p \in Procs, a \in Users, t \in DepIds, body \in TermUpdates :
            (/\ StartUpdateTerm(p, a, t, body)
             /\ t \in DOMAIN terms
             /\ terms[t].createdBy = a
             /\ terms[t].status # "agreed")
            => procs'[p].pc = "update"
       /\ \A p \in Procs :
            (/\ At(p, "updateTerm", "update") /\ procs'[p].pc = "idle"
             /\ procs[p].body # Undefined
             /\ procs[p].ent \in DOMAIN terms)
            => (/\ terms'[procs[p].ent].status = "modified"
                /\ terms'[procs[p].ent].agreedBy = << >>
                /\ lastRes'.status = 200)
       /\ \A t \in DOMAIN terms :
            (/\ t \in DOMAIN terms'
             /\ terms[t].status = "modified"
             /\ terms'[t].status = "agreed")
            => TermParties(terms'[t]) \subseteq Agreers(terms'[t])]_vars

\* C17: once a Term's status is agreed, no step changes its title, status or
\* agreedBy or deletes it (only its violations may grow), also when the step
\* belongs to an updateTerm or deleteTerm whose status check ran before the
\* second agreement was saved.
C17_AgreedTermImmutable ==
    [][\A t \in DOMAIN terms :
            terms[t].status = "agreed"
            => (/\ t \in DOMAIN terms'
                /\ terms'[t].title = terms[t].title
                /\ terms'[t].status = "agreed"
                /\ terms'[t].agreedBy = terms[t].agreedBy
                /\ terms'[t].createdBy = terms[t].createdBy
                /\ terms'[t].relationship = terms[t].relationship)]_vars

\* C19: whenever both parties of the relationship are listed in a Term's
\* agreedBy, the Term's status is agreed, in particular after the initiator
\* and the partner called agreeTerm concurrently.
C19_BothAgreedMeansAgreed ==
    \A t \in DOMAIN terms :
        (/\ TermParties(terms[t]) # {}
         /\ TermParties(terms[t]) \subseteq Agreers(terms[t]))
        => terms[t].status = "agreed"

\* C20: whenever a Term's status is agreed, its agreedBy holds exactly two
\* entries, one for the relationship's initiator and one for its partner.
C20_AgreedByBothParties ==
    \A t \in DOMAIN terms :
        terms[t].status = "agreed"
        => (/\ Len(terms[t].agreedBy) = AgreementsNeeded
            /\ Agreers(terms[t]) = TermParties(terms[t]))

\* C13: when Notification creation fails during a state-changing operation
\* (accept, decline, cancelBreakupRequest, requestBreakup, confirmBreakup,
\* createTerm, agreeTerm, completeMilestone, createActivity) the transition
\* stays committed and the operation still reports success: the step that
\* ends such a request after it changed the store answers 200 or 201.
C13_NotificationFailureSwallowed ==
    [][\A p \in Procs :
          (/\ procs[p].op \in {"acceptRelationship", "declineRelationship",
                                "cancelBreakupRequest", "requestBreakup", "confirmBreakup",
                                "createTerm", "agreeTerm", "completeMilestone",
                                "createActivity"}
           /\ procs[p].pc # "idle" /\ procs'[p].pc = "idle"
           /\ ~sinkUp
           /\ <<rels, terms, milestones, activities>>' #
                  <<rels, terms, milestones, activities>>)
          => lastRes'.status \in {200, 201}]_vars

\* C18: once a Milestone's status is completed it stays completed, is never
\* deleted and its difficulty and rewards never change, also when the step is
\* that of an updateMilestone or deleteMilestone whose status check ran
\* before the completing save.
C18_CompletedMilestoneImmutable ==
    [][\A m \in DOMAIN milestones :
            milestones[m].status = "completed"
            => (/\ m \in DOMAIN milestones'
                /\ milestones'[m].status = "completed"
                /\ milestones'[m].difficulty = milestones[m].difficulty
                /\ milestones'[m].certificate = milestones[m].certificate
                /\ milestones'[m].relationship = milestones[m].relationship)]_vars

\* the shared precondition of creation, on the store as it is
CreatableOn(id, actor) ==
    /\ id \in DOMAIN rels
    /\ rels[id].status = "active"
    /\ includesUser(rels[id], actor)

\* C15: a Term, Milestone or Activity comes into existence only while the
\* referenced Relationship exists, is active and has the actor as a party,
\* also when the creation races with a requestBreakup or an archive; a
\* creation request on a relationship that is not active is rejected.
C15_CreatedOnlyOnActive ==
    [][/\ \A p \in Procs :
            (/\ procs[p].op \in {"createTerm", "createMilestone", "createActivity"}
             /\ procs[p].pc = "save"
             /\ <<terms, milestones, activities>>' # <<terms, milestones, activities>>)
            => CreatableOn(procs[p].rel, procs[p].actor)
       /\ \A p \in Procs, a \in Users, id \in RelIds :
            (/\ procs[p].pc = "idle" /\ procs'[p].pc = "save"
             /\ procs'[p].op \in {"createTerm", "createMilestone", "createActivity"}
             /\ procs'[p].actor = a /\ procs'[p].rel = id)
            => CreatableOn(id, a)]_vars

\* the relationship id and everything attached to it, as the store holds it
RelState(id) ==
    <<IF id \in DOMAIN rels THEN rels[id] ELSE NullDoc,
      {<<t, terms[t]>> : t \in {x \in DOMAIN terms : terms[x].relationship = id}},
      {<<m, milestones[m]>> : m \in {x \in DOMAIN milestones : milestones[x].relationship = id}},
      {<<a, activities[a]>> : a \in {x \in DOMAIN activities : activities[x].relationship = id}}>>

\* C16: a user who is neither the initiator nor the partner of a
\* Relationship never changes it or a Term, Milestone or Activity attached
\* to it: no request of such a user aimed at the relationship or at one of
\* its dependents passes the handler's checks, a request that does not pass
\* is answered with an error and leaves that state as it was, and every
\* change of that state is the write of a request sent by one of the two
\* parties.
C16_OutsiderChangesNothing ==
    [][\A id \in DOMAIN rels :
          /\ \A p \in Procs :
                (procs[p].pc = "idle" /\ procs'[p].pc # "idle" /\ procs'[p].rel = id)
                => includesUser(rels[id], procs'[p].actor)
          /\ issued' # issued
                => /\ RelState(id)' = RelState(id)
                   /\ procs' = procs => lastRes'.status >= 400
          /\ RelState(id)' # RelState(id)
                => \E p \in Procs :
                      /\ procs[p].pc # "idle"
                      /\ procs'[p] # procs[p]
                      /\ procs[p].rel = id
                      /\ includesUser(rels[id], procs[p].actor)]_vars

\* an outsider's request on the active relationship that carries a term, a
\* milestone and an activity was turned away
C16_Witness ==
    /\ lastRes = Res(403, "Access denied")
    /\ 1 \in DOMAIN rels
    /\ rels[1].status = "active"
    /\ \E t \in DOMAIN terms : terms[t].relationship = 1
    /\ \E m \in DOMAIN milestones : milestones[m].relationship = 1
    /\ \E a \in DOMAIN activities : activities[a].relationship = 1

\* the handlers that the creator of a Term or Activity alone may call
CreatorOnlyOps == {"updateTerm", "deleteTerm", "updateActivity", "deleteActivity"}

\* C21: updateTerm, deleteTerm, updateActivity and deleteActivity succeed
\* only for the record's createdBy user: a call by any other user on an
\* existing record is answered 403 and leaves the record and the
\* relationship's stats as they were, and every request of these handlers
\* that gets past its checks, and every write they make, is the creator's.
C21_CreatorOnlyUpdateDelete ==
    [][/\ \A p \in Procs, u \in Users :
            /\ \A t \in DOMAIN terms :
                 (/\ terms[t].createdBy # u
                  /\ issued' # issued
                  /\ StartUpdateTerm(p, u, t, "t2") \/ StartDeleteTerm(p, u, t))
                 => /\ lastRes'.status = 403
                    /\ UNCHANGED <<terms, rels>>
            /\ \A a \in DOMAIN activities :
                 (/\ activities[a].createdBy # u
                  /\ issued' # issued
                  /\ StartUpdateActivity(p, u, a, "a2") \/ StartDeleteActivity(p, u, a))
                 => /\ lastRes'.status = 403
                    /\ UNCHANGED <<activities, rels>>
       /\ \A p \in Procs :
            (/\ procs[p].op \in CreatorOnlyOps
             /\ procs'[p] # procs[p]
             /\ <<terms, activities, rels>>' # <<terms, activities, rels>>)
            => procs[p].actor = procs[p].edoc.createdBy]_vars

\* the other party was refused the deletion of an activity that is still
\* there and still counted
C21_Witness ==
    /\ lastRes = Res(403, "Only the creator can delete this activity")
    /\ \E a \in DOMAIN activities :
          /\ activities[a].relationship \in DOMAIN rels
          /\ rels[activities[a].relationship].totalActivities >= 1

\* C22: updateMilestone and deleteMilestone succeed only for the user who
\* created the Milestone; the other party cannot edit or delete it.  Every
\* milestone of SpecMilestone was created by A, so every request of these
\* two handlers that changes or removes a milestone has to be A's.
C22_CreatorOnlyMilestoneEdit ==
    [][\A p \in Procs :
          (/\ procs[p].op \in {"updateMilestone", "deleteMilestone"}
           /\ procs'[p] # procs[p]
           /\ milestones' # milestones)
          => procs[p].actor = "A"]_vars

\* C23: deleteRelationship by a party removes the Relationship document only
\* when its status is pending; an active relationship is kept, becomes
\* archived and gets its endDate; a relationship that is requested_breakup,
\* ended or archived is not removed.
C23_DeleteRemovesOnlyPending ==
    [][\A p \in Procs :
          (/\ procs[p].op = "deleteRelationship"
           /\ procs'[p] # procs[p]
           /\ procs[p].rel \in DOMAIN rels)
          => LET id == procs[p].rel IN
               /\ id \notin DOMAIN rels' => rels[id].status = "pending"
               /\ rels[id].status = "active"
                    => /\ id \in DOMAIN rels'
                       /\ rels'[id].status = "archived"
                       /\ rels'[id].endDate
               /\ rels[id].status \in {"requested_breakup", "ended", "archived"}
                    => id \in DOMAIN rels']_vars

\* C24: in every reachable state breakupRequestedBy is set only if the
\* relationship's status is requested_breakup; it is cleared, or was never
\* set, in pending, active, ended and archived relationships.
C24_RequesterOnlyWhileRequested ==
    \A id \in DOMAIN rels :
        rels[id].breakupRequestedBy # NoUser => rels[id].status = "requested_breakup"

C26_AcceptDeclineGuarded ==
    [][/\ \A p \in Procs, u \in Users, id \in DOMAIN rels :
            (/\ issued' # issued
             /\ StartAcceptRelationship(p, u, id) \/ StartDeclineRelationship(p, u, id))
            => /\ rels[id].partner # u
                    => lastRes'.status = 403 /\ rels' = rels
               /\ (rels[id].partner = u /\ rels[id].status # "pending")
                    => lastRes'.status = 400 /\ rels' = rels
               /\ procs'[p].pc # "idle"
                    => rels[id].partner = u /\ rels[id].status = "pending"
       /\ \A p \in Procs :
            (/\ procs[p].op \in {"acceptRelationship", "declineRelationship"}
             /\ procs'[p] # procs[p]
             /\ rels' # rels)
            => /\ procs[p].doc.partner = procs[p].actor
               /\ procs[p].doc.status = "pending"]_vars

\* an acceptance was refused because the relationship was no longer pending
C26_Witness ==
    /\ lastRes = Res(400, "Relationship is not pending")
    /\ \E id \in DOMAIN rels : rels[id].status = "active"

\* C27: once declineRelationship by the partner has run on a pending
\* relationship no Relationship document for that pair remains (the document
\* is deleted, not kept as ended or archived), and a later proposal between
\* the same two users, in either direction, passes its checks and inserts a
\* pending document.
C27_DeclineFreesThePair ==
    [][/\ \A p \in Procs :
            (/\ procs[p].op = "declineRelationship"
             /\ procs'[p] # procs[p])
            => \A i \in DOMAIN rels' : Pair(rels'[i]) # Pair(procs[p].doc)
       /\ \A p \in Procs, a \in Users, b \in Users :
            (/\ a # b
             /\ FindExisting(a, b) = {}
             /\ issued' # issued
             /\ StartCreateRelationship(p, a, b))
            => /\ procs'[p].pc = "save"
               /\ procs'[p].doc.status = "pending"
               /\ Pair(procs'[p].doc) = {a, b}
       /\ \A p \in Procs :
            (/\ procs[p].op = "createRelationship"
             /\ procs'[p] # procs[p]
             /\ rels' # rels)
            => /\ DOMAIN rels' = DOMAIN rels \cup {nextRel}
               /\ rels'[nextRel].status = "pending"]_vars

\* the paths of a Relationship that updateRelationship must leave alone
Protected(doc) == [path \in DOMAIN doc \ {"title"} |-> doc[path]]

\* C28: updateRelationship succeeds only for a party on an active
\* relationship and changes only whitelisted fields: status, initiator,
\* partner, breakupRequestedBy, acceptedDate, endDate and the stats are the
\* same before and after its write whatever the request body contains, and
\* a body that names the title changes the title.
C28_UpdateWhitelistOnly ==
    [][\A p \in Procs :
          /\ (procs[p].pc = "idle" /\ procs'[p].op = "updateRelationship")
               => /\ procs'[p].rel \in DOMAIN rels
                  /\ includesUser(rels[procs'[p].rel], procs'[p].actor)
                  /\ rels[procs'[p].rel].status = "active"
          /\ (procs[p].op = "updateRelationship" /\ procs'[p] # procs[p])
               => /\ DOMAIN rels' = DOMAIN rels
                  /\ \A id \in DOMAIN rels :
                       /\ Protected(rels'[id]) = Protected(rels[id])
                       /\ id # procs[p].rel => rels'[id] = rels[id]
                  /\ (procs[p].rel \in DOMAIN rels /\ procs[p].body \in {"title", "all"})
                       => rels'[procs[p].rel].title = "r2"]_vars

\* an update was accepted: the title is the new one, the rest is as it was
C28_Witness ==
    /\ lastRes = Res(200, "Relationship updated successfully")
    /\ \E id \in DOMAIN rels :
          /\ rels[id].title = "r2"
          /\ rels[id].status = "active"
          /\ rels[id].initiator = "A"
          /\ rels[id].partner = "B"

\* stats.trustLevel, stats.totalActivities and stats.milestonesAchieved
Stats(doc) == <<doc.trustLevel, doc.totalActivities, doc.milestonesAchieved>>

\* the handlers of the dependent entities that maintain the stats
StatsOps == {"createActivity", "deleteActivity", "completeMilestone"}

\* C29: no lifecycle operation (accept, decline, requestBreakup,
\* confirmBreakup, cancelBreakupRequest, archive or delete, update) changes a
\* Relationship's stats.trustLevel, stats.totalActivities or
\* stats.milestonesAchieved: every change of them is a write of
\* createActivity, deleteActivity or completeMilestone.
C29_StatsOnlyByCoordinators ==
    [][\A id \in DOMAIN rels :
          (id \in DOMAIN rels' /\ Stats(rels'[id]) # Stats(rels[id]))
          => \E p \in Procs :
                /\ procs[p].op \in StatsOps
                /\ procs'[p] # procs[p]
                /\ procs[p].rel = id]_vars

\* a breakup was requested on a relationship whose stats are not the
\* defaults, and they are still there
C29_Witness ==
    /\ lastRes = Res(200, "Breakup request sent successfully")
    /\ \E id \in DOMAIN rels :
          /\ rels[id].status = "requested_breakup"
          /\ Stats(rels[id]) # Stats(NullDoc)

ValidityRule(c, now) == ~c.isRevoked /\ (c.validUntil = 0 \/ ~(now > c.validUntil))

\* C31: Certificate.isValid() is true exactly when metadata.isRevoked is
\* false and validUntil is absent or not yet past, and once revoke() has set
\* isRevoked no operation makes the certificate valid again.
C31_ValidUnlessRevokedOrExpired ==
    [][\A c \in DOMAIN certificates :
          /\ \A now \in Times :
                /\ isValid(certificates[c], now) <=> ValidityRule(certificates[c], now)
                /\ isValid(certificates'[c], now) <=> ValidityRule(certificates'[c], now)
          /\ certificates[c].isRevoked
                => /\ certificates'[c].isRevoked
                   /\ \A now \in Times : ~isValid(certificates'[c], now)]_vars

\* a certificate was revoked while a request that loaded it before is about
\* to save its counter
C31_Witness ==
    \E p \in Procs :
       /\ procs[p].pc = "save"
       /\ procs[p].op \in {"getCertificate", "downloadCertificate", "shareCertificate"}
       /\ ~procs[p].edoc.isRevoked
       /\ certificates[procs[p].ent].isRevoked

\* the content and validity fields of a certificate
Content(c) ==
    [recipients |-> c.recipients, relatedTo |-> c.relatedTo, relatedId |-> c.relatedId,
     title |-> c.title, level |-> c.level, certificateNumber |-> c.certificateNumber,
     isRevoked |-> c.isRevoked, validUntil |-> c.validUntil]

\* C32: getCertificate, downloadCertificate and shareCertificate change only
\* the view, download and share counters and sharing.sharedOn of a
\* Certificate: its recipients, relatedTo, relatedId, title, level, number,
\* isRevoked and validUntil are the same before and after every step of
\* these handlers, and so is isValid().
C32_CountersOnly ==
    [][(\E p \in Procs :
           /\ procs'[p] # procs[p]
           /\ \/ procs[p].op \in {"getCertificate", "downloadCertificate", "shareCertificate"}
              \/ procs'[p].op \in {"getCertificate", "downloadCertificate", "shareCertificate"})
       => /\ DOMAIN certificates' = DOMAIN certificates
          /\ \A c \in DOMAIN certificates :
                /\ Content(certificates'[c]) = Content(certificates[c])
                /\ \A now \in Times :
                      isValid(certificates'[c], now) <=> isValid(certificates[c], now)]_vars

\* a certificate that was viewed, downloaded and shared
C32_Witness ==
    \E c \in DOMAIN certificates :
       /\ certificates[c].viewCount >= 1
       /\ certificates[c].downloadCount >= 1
       /\ certificates[c].shareCount >= 1
       /\ Len(certificates[c].sharedOn) >= 1

\* the numbers of the stored certificates
Numbers(certs) == {certs[c].certificateNumber : c \in DOMAIN certs}

C34_PartiesDistinctAndFixed ==
    [][/\ \A id \in DOMAIN rels' : rels'[id].initiator # rels'[id].partner
       /\ \A id \in DOMAIN rels \cap DOMAIN rels' :
             /\ rels'[id].initiator = rels[id].initiator
             /\ rels'[id].partner = rels[id].partner
       /\ (\E p \in Procs, actor \in Users : StartCreateRelationship(p, actor, actor))
             => /\ lastRes' = Res(400, "Cannot create relationship with yourself")
                /\ rels' = rels
                /\ notifications' = notifications
                /\ \A p \in Procs : Idle(p) => procs'[p] = procs[p]]_vars

\* a proposal to oneself was just rejected next to a relationship whose
\* update request named every path
C34_Witness ==
    /\ lastRes = Res(400, "Cannot create relationship with yourself")
    /\ \E id \in DOMAIN rels : rels[id].title = "r2" /\ rels[id].initiator = "A"

\* C35: generateRelationshipCertificate called by a party creates one
\* Certificate with relatedTo = relationship, relatedId = the relationship
\* and recipients = initiator and partner, and sets the Relationship's
\* latestCertificate to that Certificate.
C35_GenerateIssuesRelationshipCertificate ==
    [][\A p \in Procs, actor \in Users, id \in DOMAIN rels :
          (GenerateRelationshipCertificate(p, actor, id) /\ includesUser(rels[id], actor))
          => /\ Len(certificates') = Len(certificates) + 1
             /\ LET c == certificates'[Len(certificates')] IN
                  /\ c.relatedTo = "relationship"
                  /\ c.relatedId = id
                  /\ c.recipients = {rels[id].initiator, rels[id].partner}
             /\ id \in DOMAIN rels'
             /\ rels'[id].latestCertificate = Len(certificates')]_vars

\* C36: a Relationship's stats.totalActivities equals the number of existing
\* Activity documents of that relationship and is never negative, also after
\* two concurrent deleteActivity calls for the same Activity; stated for the
\* states in which no request is in flight.
C36_TotalActivitiesIsCount ==
    (\A p \in Procs : Idle(p))
    => \A id \in DOMAIN rels :
          /\ rels[id].totalActivities >= 0
          /\ rels[id].totalActivities =
                Cardinality({a \in DOMAIN activities : activities[a].relationship = id})

\* C37: trust changes are applied additively and none is lost, also when two
\* createActivity calls run concurrently: each trust write of createActivity
\* adds the request's trustChange to the trustLevel that is stored at that
\* moment (where neither that sum nor the sum with the level the request
\* loaded leaves the clamping range), so that two calls with d1 and d2 on t
\* end with t + d1 + d2.
C37_TrustChangesAdditive ==
    [][\A p \in Procs :
          (/\ CreateActivityStep(p, "trust")
           /\ Kept(procs[p].rel)
           /\ procs[p].doc.trustLevel + procs[p].arg >= MinTrustLevel
           /\ procs[p].doc.trustLevel + procs[p].arg <= MaxTrustLevel
           /\ rels[procs[p].rel].trustLevel + procs[p].arg >= MinTrustLevel
           /\ rels[procs[p].rel].trustLevel + procs[p].arg <= MaxTrustLevel)
          => rels'[procs[p].rel].trustLevel =
                rels[procs[p].rel].trustLevel + procs[p].arg]_vars

\* C38: endDate is set exactly when the status is ended or archived, and
\* acceptedDate is set exactly when the status is not pending, in every
\* reachable state, also after concurrent confirmBreakup and
\* cancelBreakupRequest.
C38_DatesMatchStatus ==
    \A id \in DOMAIN rels :
       /\ rels[id].endDate <=> rels[id].status \in {"ended", "archived"}
       /\ rels[id].acceptedDate <=> rels[id].status # "pending"

\* C39: an operation that answers NotFound (404), Forbidden (403) or
\* InvalidState, Conflict, already agreed, already completed (400) leaves
\* every Relationship, Term, Milestone, Activity and Certificate unchanged
\* and creates no Notification: the step that sends such a response changes
\* no collection.
C39_ErrorsChangeNothing ==
    [][lastRes'.status \in {400, 403, 404}
          => /\ rels' = rels
             /\ terms' = terms
             /\ milestones' = milestones
             /\ activities' = activities
             /\ certificates' = certificates
             /\ notifications' = notifications]_vars

\* a second completion was just refused while the milestone stays completed
C39_Witness ==
    /\ lastRes = Res(400, "Milestone is already completed")
    /\ \E m \in DOMAIN milestones : milestones[m].status = "completed"

\* C40: every existing Term, Milestone and Activity references a Relationship
\* document that still exists; no sequence of operations leaves a dependent
\* record whose relationship has been deleted.
C40_DependentsHaveRelationship ==
    /\ \A t \in DOMAIN terms : terms[t].relationship \in DOMAIN rels
    /\ \A m \in DOMAIN milestones : milestones[m].relationship \in DOMAIN rels
    /\ \A a \in DOMAIN activities : activities[a].relationship \in DOMAIN rels

====
